---- MODULE Spec2Model ----
(***************************************************************************)
(* Rule evaluation engine of the insurance audit (src/src/rules/rules.py,  *)
(* src/preprocess.py, src/postprocess.py, src/src/orchestrator): the mask  *)
(* evaluator, the group-pair evaluator, the dispatcher, manual promotion   *)
(* and the final derivation of the three trigger columns.                  *)
(***************************************************************************)
EXTENDS Integers, Sequences, FiniteSets, TLC

VARIABLES
    data_type,   \* ComputeRule.data_type / AuditOrchestrator.data_type
    catalog,     \* RULES_CONFIG: rule key -> entry
    df,          \* the record set: row index -> (column -> value)
    columns,     \* df.columns: the columns the record set holds right now
    raw,         \* "Filter Applied(Exclusions not Applied)" per row
    final,       \* "Filter Applied" per row
    manual,      \* "Filter Applied(Manual Verification Required)" per row
    pc,          \* position of the run
    idx,         \* position of the dispatcher in dir(self)
    errors,      \* rule methods whose wrapper logged an exception
    evaluated,   \* rule methods the dispatcher has invoked, in order
    masks,       \* the four masks of the last Mask Evaluator call
    call,        \* arguments of a direct evaluator call
    edits,       \* number of saves done by the catalog editor
    input_data,  \* the uploaded record set handed to execute
    history      \* the trigger columns returned by the earlier runs

vars == <<data_type, catalog, df, columns, raw, final, manual, pc, idx,
          errors, evaluated, masks, call, edits, input_data,
                   history>>

----------------------------------------------------------------------------
(* Bounds *)

NRows == 2       \* rows of the record set of a full run
NPairRows == 3   \* rows of the record set of a direct group-pair call
MaxEdits == 1    \* saves of the catalog editor
MaxRuns == 2     \* calls of execute in one process

\* the row labels of the record set (df.index)
Rows == DOMAIN df

----------------------------------------------------------------------------
(* Values *)

\* a missing value of an object column (NaN after read_csv)
NA == "<NA>"

\* a missing value of an Int64 column (pd.to_numeric(errors="coerce"))
NAQty == -1

\* str.lower() on the strings of the model
LowerMap ==
    "D2720" :> "d2720" @@
    "NAN" :> "nan" @@
    "OUT-PATIENT MATERNITY" :> "out-patient maternity" @@
    "Out-Patient Maternity" :> "out-patient maternity" @@
    "OUT-PATIENT" :> "out-patient" @@
    "IN-PATIENT" :> "in-patient" @@
    "Approved" :> "approved" @@
    "APPROVED" :> "approved" @@
    "Rejected" :> "rejected" @@
    "Y" :> "y" @@
    "N" :> "n" @@
    "MINISTRY OF FOREIGN AFFAIRS" :> "ministry of foreign affairs" @@
    "AL AHLI HOSPITAL" :> "al ahli hospital" @@
    "Consultation" :> "consultation" @@
    "Pharmacy" :> "pharmacy" @@
    "Koflet Syrup" :> "koflet syrup" @@
    "Paracetamol" :> "paracetamol" @@
    "PA: 123" :> "pa: 123" @@
    "Fever" :> "fever" @@
    "True" :> "true" @@
    "False" :> "false" @@
    "AK/HC/00093/5/1" :> "ak/hc/00093/5/1" @@
    "AK/HC/00500/0/1" :> "ak/hc/00500/0/1" @@
    "Re-Submission" :> "re-submission" @@
    "Cancelled" :> "cancelled" @@
    "PA1" :> "pa1" @@
    "PA2" :> "pa2" @@
    "CL1" :> "cl1" @@
    "CL2" :> "cl2"

Lower(s) == IF s \in DOMAIN LowerMap THEN LowerMap[s] ELSE s

\* str(x) / astype(str) of a value of an object column
Str(v) == IF v = NA THEN "nan" ELSE v

\* set of the elements of a sequence
Range(s) == {s[i] : i \in DOMAIN s}

----------------------------------------------------------------------------
(* Column vocabulary *)

StatusCol == "Activity status-Rejected/Approve"

InputColumns ==
    {"ACTIVITY_CODE", "BENEFIT_TYPE", "POLICY_NUMBER",
     "ACTIVITY_QUANTITY_APPROVED", "ACTIVITY_DESCRIPTION",
     "ACTIVITY_INTERNAL_DESCRIPTION", "PRESENTING_COMPLAINTS",
     "PRE_AUTH_NUMBER", "CLAIM_NUMBER", StatusCol, "VIP_YN", "PA_STATUS",
     "CORPORATE_NAME", "SERVICE_NAME", "PROVIDER_NAME", "SUBMISSION_TYPE"}

NumericColumns == {"MEMBER_AGE", "ACTIVITY_QUANTITY_APPROVED", "QUANTITY"}

\* derived columns added by preprocessing
WorkingColumns == {"__approved", "exclusion_mask"}
TriggerColumns ==
    {"Filter Applied(Exclusions not Applied)", "Filter Applied",
     "Filter Applied(Manual Verification Required)"}

BaseRow ==
    "ACTIVITY_CODE" :> "0000" @@
    "BENEFIT_TYPE" :> "OUT-PATIENT" @@
    "POLICY_NUMBER" :> "AK/HC/00500/0/1" @@
    "ACTIVITY_QUANTITY_APPROVED" :> 1 @@
    "ACTIVITY_DESCRIPTION" :> "Paracetamol" @@
    "ACTIVITY_INTERNAL_DESCRIPTION" :> "Paracetamol" @@
    "PRESENTING_COMPLAINTS" :> "Fever" @@
    "PRE_AUTH_NUMBER" :> NA @@
    "CLAIM_NUMBER" :> "CL1" @@
    StatusCol :> "Approved" @@
    "VIP_YN" :> "N" @@
    "PA_STATUS" :> "Approved" @@
    "CORPORATE_NAME" :> "" @@
    "SERVICE_NAME" :> "Pharmacy" @@
    "PROVIDER_NAME" :> "" @@
    "SUBMISSION_TYPE" :> "" @@
    "__approved" :> FALSE @@
    "exclusion_mask" :> FALSE

\* a row given by the fields the rules of the model read
MkRow(code, benefit, qty, status, pa, claim, desc) ==
    [BaseRow EXCEPT !["ACTIVITY_CODE"] = code,
                    !["BENEFIT_TYPE"] = benefit,
                    !["ACTIVITY_QUANTITY_APPROVED"] = qty,
                    ![StatusCol] = status,
                    !["PRE_AUTH_NUMBER"] = pa,
                    !["CLAIM_NUMBER"] = claim,
                    !["ACTIVITY_DESCRIPTION"] = desc]

----------------------------------------------------------------------------
(* Global exclusion specifications (mapper.py) *)

EqDict(column, val, services) ==
    [column |-> column, val |-> val, services |-> services]
EqCond(column, vals) == [column |-> column, vals |-> vals]

excluded_conditions_preauth ==
    [eq_dict |-> {EqDict("CORPORATE_NAME", "MINISTRY OF FOREIGN AFFAIRS",
                         {"consultation", "pharmacy", "investigation"})},
     eq |-> {EqCond("VIP_YN", {"Y"}),
             EqCond("BENEFIT_TYPE",
                    {"in-patient maternity", "in-patient", "day care"}),
             EqCond("PA_STATUS", {"cancelled"})},
     not_na |-> {}]

excluded_conditions_claims ==
    [eq_dict |-> {EqDict("PROVIDER_NAME", "AL AHLI HOSPITAL",
                         {"consultation", "pharmacy", "investigation"}),
                  EqDict("PROVIDER_NAME", "AL EMADI OPTICS",
                         {"consultation", "investigation"}),
                  EqDict("PROVIDER_NAME", "AL EMADI HOSPITAL CLINICS - NORTH",
                         {"consultation", "investigation"}),
                  EqDict("PROVIDER_NAME", "AL EMADI HOSPITAL",
                         {"consultation", "investigation"}),
                  EqDict("CORPORATE_NAME", "MINISTRY OF FOREIGN AFFAIRS",
                         {"consultation", "pharmacy", "investigation"})},
     eq |-> {EqCond("BENEFIT_TYPE",
                    {"in-patient maternity", "in-patient", "day care"}),
             EqCond("SUBMISSION_TYPE", {"re-submission"})},
     not_na |-> {"PRE_AUTH_NUMBER"}]

ValidTypes == {"PreAuth", "Claim"}

\* AuditOrchestrator.load_exclusions (only called with a valid type)
load_exclusions(dt) ==
    IF dt = "PreAuth" THEN excluded_conditions_preauth
    ELSE excluded_conditions_claims

----------------------------------------------------------------------------
(* Preprocessing (preprocess.py) *)

\* columns run_preprocess reads unconditionally: a missing one is a KeyError
FillNaColumns ==
    {StatusCol, "SERVICE_NAME", "PROVIDER_NAME", "CORPORATE_NAME"}

ExclusionColumns(conds) ==
    {c.column : c \in conds.eq_dict} \cup {c.column : c \in conds.eq}
        \cup conds.not_na
        \cup (IF conds.eq_dict = {} THEN {} ELSE {"SERVICE_NAME"})

PreprocessFails(cols, conds) ==
    ~ (FillNaColumns \subseteq cols /\ ExclusionColumns(conds) \subseteq cols)

\* __fix_nan_columns: fillna("") on the four text columns
FillNa(row) ==
    [c \in DOMAIN row |->
        IF c \in FillNaColumns /\ row[c] = NA THEN "" ELSE row[c]]

\* __add_filter_and_approved_columns: the approval flag
Approved(row) == Lower(row[StatusCol]) = "approved"

\* __add_exclusion_mask: OR of every condition of the specification
ExclusionMask(row, conds) ==
    \/ \E c \in conds.eq_dict :
          /\ row[c.column] = c.val
          /\ Lower(Str(row["SERVICE_NAME"])) \in c.services
    \/ \E c \in conds.eq : Lower(Str(row[c.column])) \in c.vals
    \/ \E col \in conds.not_na : row[col] # NA

PreprocessRow(row, conds) ==
    LET filled == FillNa(row)
    IN  [filled EXCEPT !["__approved"] = Approved(filled),
                       !["exclusion_mask"] = ExclusionMask(filled, conds)]

EmptySets == [r \in Rows |-> {}]

----------------------------------------------------------------------------
(* State of the record set while one rule method runs *)

NoMasks ==
    [ran |-> FALSE, name |-> "", incl |-> {}, excl |-> {}, extra |-> {},
     trig |-> {}]

\* raw/manual: the two set columns rules write; cols: df.columns;
\* err: an exception has been raised; masks: the last evaluator's masks
DfState(r, m, cols) ==
    [raw |-> r, manual |-> m, cols |-> cols, err |-> FALSE, masks |-> NoMasks]

\* variant: the raising body leaves the rows' raw triggers emptied
Raise_clear(st) == [st EXCEPT !.err = TRUE, !.raw = [r \in Rows |-> {}]]

\* an exception leaves the body: the record set stays as mutated so far
Raise(st) == [st EXCEPT !.err = TRUE]

IsApproved(r) == df[r]["__approved"]
IsExclusionEligible(r) == df[r]["exclusion_mask"]

ApprovedRows == {r \in Rows : IsApproved(r)}

----------------------------------------------------------------------------
(* Arguments of the Mask Evaluator *)

NoCol == ""   \* None or "" : a falsy column name

NoneArg == [kind |-> "none", codes |-> <<>>, clauses |-> <<>>]
\* ["CODE1", "CODE2"] : bare codes
Bare(codes) == [kind |-> "bare", codes |-> codes, clauses |-> <<>>]
\* [{"column": ..., "codes": [...]}, ...]
Dicts(clauses) == [kind |-> "dict", codes |-> <<>>, clauses |-> clauses]
Clause(column, codes) == [column |-> column, codes |-> codes]

\* Python truthiness of a list argument: None and [] are falsy
Truthy(l) ==
    \/ l.kind = "bare" /\ Len(l.codes) > 0
    \/ l.kind = "dict" /\ Len(l.clauses) > 0

\* operand of an extra condition
Num(n) == [t |-> "num", n |-> n, s |-> "", l |-> {}]
StrV(s) == [t |-> "str", n |-> 0, s |-> s, l |-> {}]
BoolV(b) == [t |-> "bool", n |-> IF b THEN 1 ELSE 0,
             s |-> IF b THEN "True" ELSE "False", l |-> {}]
ListV(l) == [t |-> "list", n |-> 0, s |-> "[list]", l |-> l]

\* variant: the operand's type is not tested
IsNumber_Any(val) == TRUE

\* isinstance(val, (int, float)) : bool is an int
IsNumber(val) == val.t \in {"num", "bool"}
\* str(val)
StrOfVal(val) == IF val.t = "num" THEN ToString(val.n) ELSE val.s

Cond(op, val) == [op |-> op, val |-> val]
\* {"column": c, "condition": {op: val, ...}}
Extra(column, condition) ==
    [column |-> column, condition |-> condition, text |-> FALSE]
\* {"column": c, "condition": "{op: val, ...}"} : the condition is the text
\* str() gives for the mapping
ExtraText(column, condition) ==
    [column |-> column, condition |-> condition, text |-> TRUE]
NoExtra == [kind |-> "none", clauses |-> <<>>]
ExtraList(clauses) == [kind |-> "list", clauses |-> clauses]

----------------------------------------------------------------------------
(* Column access.  tmp holds the rule-private temporary boolean columns   *)
(* of the running rule: temporary column name -> (row -> BOOLEAN).        *)

NoTmp == <<>>

IsTmp(col, tmp) == col \in DOMAIN tmp

\* df[col].astype(str) / str(x)
ColStr(r, col, tmp) ==
    IF IsTmp(col, tmp) THEN (IF tmp[col][r] THEN "True" ELSE "False")
    ELSE IF col \in NumericColumns
         THEN (IF df[r][col] = NAQty THEN "<NA>" ELSE ToString(df[r][col]))
         ELSE Str(df[r][col])

\* df[col].notna()
NotNa(r, col, tmp) ==
    IF IsTmp(col, tmp) THEN TRUE
    ELSE IF col \in NumericColumns THEN df[r][col] # NAQty
         ELSE df[r][col] # NA

\* a column whose values compare with a number (Int64 or bool); comparing
\* an object column of strings with a number raises TypeError
IsComparable(col, tmp) == IsTmp(col, tmp) \/ col \in NumericColumns

\* the number a comparison reads (only used where NotNa holds)
NumVal(r, col, tmp) ==
    IF IsTmp(col, tmp) THEN (IF tmp[col][r] THEN 1 ELSE 0) ELSE df[r][col]

\* df[col].isin(list of strings)
IsIn(r, col, tmp, l) ==
    IF IsComparable(col, tmp) THEN FALSE
    ELSE df[r][col] # NA /\ df[r][col] \in l

\* str(x).lower() in [c.lower() for c in codes]
CodeMatch(r, col, codes, tmp) ==
    Lower(ColStr(r, col, tmp)) \in {Lower(c) : c \in Range(codes)}

----------------------------------------------------------------------------
(* _check_extra_condition *)

\* variant: gt compares with >=
Compare_GtInclusive(op, x, y) ==
    CASE op = "gte" -> x >= y
      [] op = "lte" -> x <= y
      [] op = "gt" -> x >= y
      [] op = "lt" -> x < y

Compare(op, x, y) ==
    CASE op = "gte" -> x >= y
      [] op = "lte" -> x <= y
      [] op = "gt" -> x > y
      [] op = "lt" -> x < y

\* variant: an invalid operation leaves the mask as it is
ExtraOp_IgnoreInvalid(acc, col, op, val, cols, tmp) ==
    LET KeyError == [acc EXCEPT !.err = TRUE]
        And(m) == [acc EXCEPT !.mask = acc.mask \cap m]
    IN
    IF acc.err THEN acc
    ELSE IF op \in {"gte", "lte", "gt", "lt"} /\ IsNumber(val) THEN
        IF col \notin cols \/ ~IsComparable(col, tmp) THEN KeyError
        ELSE And({r \in Rows : NotNa(r, col, tmp)
                               /\ Compare(op, NumVal(r, col, tmp), val.n)})
    ELSE IF op = "eq" THEN
        IF col \notin cols THEN KeyError
        ELSE And({r \in Rows :
                    Lower(ColStr(r, col, tmp)) = Lower(StrOfVal(val))})
    ELSE IF op = "neq" THEN
        IF col \notin cols THEN KeyError
        ELSE And({r \in Rows :
                    Lower(ColStr(r, col, tmp)) # Lower(StrOfVal(val))})
    ELSE IF op = "isin" /\ val.t = "list" THEN
        IF col \notin cols THEN KeyError
        ELSE And({r \in Rows : IsIn(r, col, tmp, val.l)})
    ELSE IF op = "notin" /\ val.t = "list" THEN
        IF col \notin cols THEN KeyError
        ELSE And({r \in Rows : ~IsIn(r, col, tmp, val.l)})
    ELSE IF op = "notna" THEN
        IF col \notin cols THEN KeyError
        ELSE And({r \in Rows : NotNa(r, col, tmp)})
    ELSE acc

\* one (op, val) item of one condition: acc = [err, mask]
ExtraOp(acc, col, op, val, cols, tmp) ==
    LET KeyError == [acc EXCEPT !.err = TRUE]
        And(m) == [acc EXCEPT !.mask = acc.mask \cap m]
    IN
    IF acc.err THEN acc
    ELSE IF op \in {"gte", "lte", "gt", "lt"} /\ IsNumber(val) THEN
        IF col \notin cols \/ ~IsComparable(col, tmp) THEN KeyError
        ELSE And({r \in Rows : NotNa(r, col, tmp)
                               /\ Compare(op, NumVal(r, col, tmp), val.n)})
    ELSE IF op = "eq" THEN
        IF col \notin cols THEN KeyError
        ELSE And({r \in Rows :
                    Lower(ColStr(r, col, tmp)) = Lower(StrOfVal(val))})
    ELSE IF op = "neq" THEN
        IF col \notin cols THEN KeyError
        ELSE And({r \in Rows :
                    Lower(ColStr(r, col, tmp)) # Lower(StrOfVal(val))})
    ELSE IF op = "isin" /\ val.t = "list" THEN
        IF col \notin cols THEN KeyError
        ELSE And({r \in Rows : IsIn(r, col, tmp, val.l)})
    ELSE IF op = "notin" /\ val.t = "list" THEN
        IF col \notin cols THEN KeyError
        ELSE And({r \in Rows : ~IsIn(r, col, tmp, val.l)})
    ELSE IF op = "notna" THEN
        IF col \notin cols THEN KeyError
        ELSE And({r \in Rows : NotNa(r, col, tmp)})
    ELSE And({})   \* invalid operator fallback: mask &= False

RECURSIVE ExtraItems(_, _, _, _, _)
ExtraItems(acc, col, items, cols, tmp) ==
    IF items = <<>> THEN acc
    ELSE ExtraItems(ExtraOp(acc, col, Head(items).op, Head(items).val,
                            cols, tmp),
                    col, Tail(items), cols, tmp)

RECURSIVE ExtraClauses(_, _, _, _)
ExtraClauses(acc, clauses, cols, tmp) ==
    IF clauses = <<>> THEN acc
    ELSE IF Head(clauses).text
    THEN [acc EXCEPT !.err = TRUE]   \* conds.items() on a str
    ELSE ExtraClauses(ExtraItems(acc, Head(clauses).column,
                                 Head(clauses).condition, cols, tmp),
                      Tail(clauses), cols, tmp)

_check_extra_condition(extra_condition, cols, tmp) ==
    LET acc == ExtraClauses([err |-> FALSE, mask |-> Rows],
                            extra_condition, cols, tmp)
    IN  [acc EXCEPT !.mask = acc.mask \cap ApprovedRows]

----------------------------------------------------------------------------
(* _compute_inclusion_exclusion *)

RECURSIVE DictInclusionMasks(_, _, _)
DictInclusionMasks(clauses, cols, tmp) ==
    IF clauses = <<>> THEN <<>>
    ELSE LET inc == Head(clauses)
             rest == DictInclusionMasks(Tail(clauses), cols, tmp)
         IN  IF inc.column \notin cols THEN rest
             ELSE <<{r \in Rows : CodeMatch(r, inc.column, inc.codes, tmp)}>>
                  \o rest

\* variant: a bare inclusion on a missing column matches no row
InclusionMasks_MissingFalse(inclusion, inclusion_column, cols, tmp) ==
    IF inclusion.kind = "bare" /\ inclusion_column # NoCol THEN
        IF inclusion_column \notin cols THEN <<{}>>
        ELSE <<{r \in Rows :
                  CodeMatch(r, inclusion_column, inclusion.codes, tmp)}>>
    ELSE IF inclusion.kind = "dict" THEN
        DictInclusionMasks(inclusion.clauses, cols, tmp)
    ELSE <<>>

InclusionMasks(inclusion, inclusion_column, cols, tmp) ==
    IF inclusion.kind = "bare" /\ inclusion_column # NoCol THEN
        IF inclusion_column \notin cols THEN <<>>
        ELSE <<{r \in Rows :
                  CodeMatch(r, inclusion_column, inclusion.codes, tmp)}>>
    ELSE IF inclusion.kind = "dict" THEN
        DictInclusionMasks(inclusion.clauses, cols, tmp)
    ELSE <<>>

RECURSIVE DictExclusionMasks(_, _, _)
DictExclusionMasks(clauses, cols, tmp) ==
    IF clauses = <<>> THEN <<>>
    ELSE LET exc == Head(clauses)
             rest == DictExclusionMasks(Tail(clauses), cols, tmp)
         IN  IF exc.column \notin cols THEN rest
             ELSE <<{r \in Rows : ~CodeMatch(r, exc.column, exc.codes, tmp)}>>
                  \o rest

ExclusionMasks(exclusion, exclusion_column, cols, tmp) ==
    IF exclusion.kind = "bare" /\ exclusion_column # NoCol THEN
        IF exclusion_column \notin cols THEN <<>>
        ELSE <<{r \in Rows :
                  ~CodeMatch(r, exclusion_column, exclusion.codes, tmp)}>>
    ELSE IF exclusion.kind = "dict" THEN
        DictExclusionMasks(exclusion.clauses, cols, tmp)
    ELSE <<>>

\* pd.concat(masks, axis=1).any(axis=1)
AnyMask(ms) == {r \in Rows : \E i \in DOMAIN ms : r \in ms[i]}
\* pd.concat(masks, axis=1).all(axis=1)
AllMask(ms) == {r \in Rows : \A i \in DOMAIN ms : r \in ms[i]}

\* variant: AND across the inclusion clauses
IsInclusionPresent_AllClauses(inclusion, inclusion_column, cols, tmp) ==
    LET inclusion_masks ==
            InclusionMasks(inclusion, inclusion_column, cols, tmp)
    IN  IF Truthy(inclusion) /\ inclusion_masks # <<>>
        THEN AllMask(inclusion_masks) ELSE Rows

IsInclusionPresent(inclusion, inclusion_column, cols, tmp) ==
    LET inclusion_masks ==
            InclusionMasks(inclusion, inclusion_column, cols, tmp)
    IN  IF Truthy(inclusion) /\ inclusion_masks # <<>>
        THEN AnyMask(inclusion_masks) ELSE Rows

\* variant: OR across the exclusion clauses
IsExclusionAbsent_AnyClause(exclusion, exclusion_column, cols, tmp) ==
    LET exclusion_masks ==
            ExclusionMasks(exclusion, exclusion_column, cols, tmp)
    IN  IF Truthy(exclusion) /\ exclusion_masks # <<>>
        THEN AnyMask(exclusion_masks) ELSE Rows

IsExclusionAbsent(exclusion, exclusion_column, cols, tmp) ==
    LET exclusion_masks ==
            ExclusionMasks(exclusion, exclusion_column, cols, tmp)
    IN  IF Truthy(exclusion) /\ exclusion_masks # <<>>
        THEN AllMask(exclusion_masks) ELSE Rows

\* the arguments of one call
Args(inclusion, inclusion_column, exclusion, exclusion_column, extra) ==
    [inclusion |-> inclusion, inclusion_column |-> inclusion_column,
     exclusion |-> exclusion, exclusion_column |-> exclusion_column,
     extra_condition |-> extra]

\* variant: the trigger name is toggled on the rows of the mask
AddTrigger_toggle(col, mask, trigger_name) ==
    [r \in Rows |->
        IF r \in mask
        THEN (col[r] \cup {trigger_name}) \ (col[r] \cap {trigger_name})
        ELSE col[r]]

\* x.union({trigger_name}) on the rows of the mask
AddTrigger(col, mask, trigger_name) ==
    [r \in Rows |-> IF r \in mask THEN col[r] \cup {trigger_name} ELSE col[r]]

\* variant: the approval flag is left out of the final mask
IsTriggerPresent_unapproved(incl, excl, extra) == (incl \cap excl) \cap extra

\* is_inclusion_present & is_exclusion_absent & is_extra_conditions_present
\* & is_approved
IsTriggerPresent(incl, excl, extra) ==
    ((incl \cap excl) \cap extra) \cap ApprovedRows

\* variant: the configuration error is raised when all three are falsy
_compute_inclusion_exclusion_falsy(st, trigger_name, a, tmp) ==
    IF st.err THEN st
    ELSE IF /\ ~Truthy(a.inclusion)
            /\ ~Truthy(a.exclusion)
            /\ ~(a.extra_condition.kind = "list"
                 /\ a.extra_condition.clauses # <<>>)
    THEN Raise(st)
    ELSE
    LET incl == IsInclusionPresent(a.inclusion, a.inclusion_column,
                                   st.cols, tmp)
        ext == IF a.extra_condition.kind = "list"
                  /\ a.extra_condition.clauses # <<>>
               THEN _check_extra_condition(a.extra_condition.clauses,
                                           st.cols, tmp)
               ELSE [err |-> FALSE, mask |-> Rows]
        excl == IsExclusionAbsent(a.exclusion, a.exclusion_column,
                                  st.cols, tmp)
        trig == IsTriggerPresent(incl, excl, ext.mask)
    IN  IF ext.err THEN Raise(st)
        ELSE [st EXCEPT
                !.raw = AddTrigger(st.raw, trig, trigger_name),
                !.masks = [ran |-> TRUE, name |-> trigger_name,
                           incl |-> incl, excl |-> excl,
                           extra |-> ext.mask, trig |-> trig]]

_compute_inclusion_exclusion(st, trigger_name, a, tmp) ==
    IF st.err THEN st
    ELSE IF /\ a.inclusion.kind = "none"
            /\ a.exclusion.kind = "none"
            /\ a.extra_condition.kind = "none"
    THEN Raise(st)
    ELSE
    LET incl == IsInclusionPresent(a.inclusion, a.inclusion_column,
                                   st.cols, tmp)
        ext == IF a.extra_condition.kind = "list"
                  /\ a.extra_condition.clauses # <<>>
               THEN _check_extra_condition(a.extra_condition.clauses,
                                           st.cols, tmp)
               ELSE [err |-> FALSE, mask |-> Rows]
        excl == IsExclusionAbsent(a.exclusion, a.exclusion_column,
                                  st.cols, tmp)
        trig == IsTriggerPresent(incl, excl, ext.mask)
    IN  IF ext.err THEN Raise(st)
        ELSE [st EXCEPT
                !.raw = AddTrigger(st.raw, trig, trigger_name),
                !.masks = [ran |-> TRUE, name |-> trigger_name,
                           incl |-> incl, excl |-> excl,
                           extra |-> ext.mask, trig |-> trig]]

\* variant: every row that holds some trigger is promoted
apply_manual_trigger_any(st, trigger_name) ==
    IF st.err THEN st
    ELSE LET mask == {r \in Rows : /\ Cardinality(st.raw[r]) > 0
                                   /\ ~IsExclusionEligible(r)}
         IN  [st EXCEPT !.manual = AddTrigger(st.manual, mask, trigger_name)]

\* apply_manual_trigger
apply_manual_trigger(st, trigger_name) ==
    IF st.err THEN st
    ELSE LET mask == {r \in Rows : /\ Cardinality(st.raw[r]) > 0
                                   /\ trigger_name \in st.raw[r]
                                   /\ ~IsExclusionEligible(r)}
         IN  [st EXCEPT !.manual = AddTrigger(st.manual, mask, trigger_name)]

----------------------------------------------------------------------------
(* _apply_group_pair_rule *)

Pair(A, B) == [A |-> A, B |-> B]

\* "PRE_AUTH_NUMBER" if "PRE_AUTH_NUMBER" in df.columns else "PREAUTH_NUMBER"
PreAuthCol(cols) ==
    IF "PRE_AUTH_NUMBER" \in cols THEN "PRE_AUTH_NUMBER" ELSE "PREAUTH_NUMBER"

\* df[pre_auth_col].where(df[pre_auth_col].notna(), df["CLAIM_NUMBER"])
GroupKey(r, cols) ==
    IF df[r][PreAuthCol(cols)] # NA THEN df[r][PreAuthCol(cols)]
    ELSE df[r]["CLAIM_NUMBER"]

\* variant: groupby(..., dropna=False) keeps a group for the missing key
GroupKeys_WithNull(cols) == {GroupKey(r, cols) : r \in Rows}

\* df.groupby("_GROUP_KEY"): rows whose key is missing belong to no group
GroupKeys(cols) == {GroupKey(r, cols) : r \in Rows} \ {NA}

\* variant: the codes of every row of the group, approved or not
ApprovedCodes_AllRows(g, cols, code_column) ==
    {Str(df[r][code_column]) : r \in {x \in Rows : GroupKey(x, cols) = g}}

\* set(group.loc[group["__approved"], code_column].astype(str))
ApprovedCodes(g, cols, code_column) ==
    {Str(df[r][code_column]) :
        r \in {x \in Rows : GroupKey(x, cols) = g /\ IsApproved(x)}}

\* has_A and has_B
PairMatches(p, approved_codes) ==
    /\ approved_codes \cap Range(p.A) # {}
    /\ approved_codes \cap Range(p.B) # {}

\* the rows tagged for one group: the first matching pair, then break
RECURSIVE GroupMask(_, _, _, _)
GroupMask(g, pair_list, cols, code_column) ==
    IF pair_list = <<>> THEN {}
    ELSE LET p == Head(pair_list)
         IN  IF PairMatches(p, ApprovedCodes(g, cols, code_column))
             THEN {r \in Rows :
                     /\ GroupKey(r, cols) = g
                     /\ Str(df[r][code_column]) \in Range(p.A) \cup Range(p.B)
                     /\ IsApproved(r)}
             ELSE GroupMask(g, Tail(pair_list), cols, code_column)

\* variant: no break, every matching pair of a group tags its rows
_apply_group_pair_rule_no_break(st, trigger_name, pair_list, code_column) ==
    IF st.err THEN st
    ELSE IF PreAuthCol(st.cols) \notin st.cols \/ "CLAIM_NUMBER" \notin st.cols
    THEN Raise(st)
    ELSE IF GroupKeys(st.cols) # {} /\ code_column \notin st.cols
    THEN Raise([st EXCEPT !.cols = st.cols \cup {"_GROUP_KEY"}])
    ELSE LET mask ==
               {r \in Rows :
                  /\ GroupKey(r, st.cols) \in GroupKeys(st.cols)
                  /\ IsApproved(r)
                  /\ \E i \in DOMAIN pair_list :
                        /\ PairMatches(pair_list[i],
                                       ApprovedCodes(GroupKey(r, st.cols),
                                                     st.cols, code_column))
                        /\ Str(df[r][code_column])
                              \in Range(pair_list[i].A)
                                    \cup Range(pair_list[i].B)}
         IN  [st EXCEPT !.raw = AddTrigger(st.raw, mask, trigger_name),
                        !.cols = st.cols \ {"_GROUP_KEY"}]

_apply_group_pair_rule(st, trigger_name, pair_list, code_column) ==
    IF st.err THEN st
    ELSE IF PreAuthCol(st.cols) \notin st.cols \/ "CLAIM_NUMBER" \notin st.cols
    THEN Raise(st)
    ELSE IF GroupKeys(st.cols) # {} /\ code_column \notin st.cols
    THEN Raise([st EXCEPT !.cols = st.cols \cup {"_GROUP_KEY"}])
    ELSE LET mask == UNION {GroupMask(g, pair_list, st.cols, code_column) :
                              g \in GroupKeys(st.cols)}
         IN  [st EXCEPT !.raw = AddTrigger(st.raw, mask, trigger_name),
                        !.cols = st.cols \ {"_GROUP_KEY"}]

----------------------------------------------------------------------------
(* Rule catalog (RULES_CONFIG).  The parameters are those the rules held  *)
(* inline before they were moved to the JSON store (src/rules.py), with   *)
(* the code lists cut to the codes the model's records use.               *)

\* str.contains(pattern, case=False/regex=True) on the texts of the model
RegexTable ==
    {<<"(cough syrup|cough syp|koflet|propolsaft|zecuf|toplexil|dextrokuf)",
       "Koflet Syrup">>,
     <<"PA:?\\s*\\d+", "PA: 123">>}

Contains(text, pattern) == <<pattern, text>> \in RegexTable

\* one catalog entry: the metadata fields, then the rule's own parameters
Entry(name, active, case_type, scope, review_req, parameters) ==
    [name |-> name, active |-> active, case_type |-> case_type,
     scope |-> scope, review_req |-> review_req] @@ parameters

CoughPattern ==
    "(cough syrup|cough syp|koflet|propolsaft|zecuf|toplexil|dextrokuf)"

DefaultCatalog ==
    "general_exclusion_hiv" :>
        Entry("General exclusion - HIV", TRUE, "both", "generic", "none",
            [incl_codes |-> Bare(<<"86689", "86701", "86702">>),
             incl_col |-> "ACTIVITY_CODE",
             excl_codes |-> Bare(<<"OUT-PATIENT MATERNITY">>),
             excl_col |-> "BENEFIT_TYPE"]) @@
    "general_exclusion_zirconium_crown" :>
        Entry("General exclusion-Zirconium Crown", TRUE, "both",
              "account specific", "manual",
            [incl_codes |-> Bare(<<"D2720", "D2750">>),
             incl_col |-> "ACTIVITY_CODE",
             excl_codes |-> Bare(<<"AK/HC/00093/5/1", "AK/HC/00093/5/2">>),
             excl_col |-> "POLICY_NUMBER"]) @@
    "more_than_one_quantity" :>
        Entry("Quantity More Than 1", TRUE, "both", "generic", "none",
            [incl_codes |-> Bare(<<"99213", "99214">>),
             incl_col |-> "ACTIVITY_CODE",
             extra_conditions |->
                ExtraList(<<Extra("ACTIVITY_QUANTITY_APPROVED",
                                  <<Cond("gt", Num(1))>>)>>)]) @@
    "cough_syrup_high_quantity" :>
        Entry("Cough Syrup-Quantity 2", TRUE, "both", "generic", "manual",
            [text_match |->
                [columns |-> <<"ACTIVITY_INTERNAL_DESCRIPTION",
                               "ACTIVITY_DESCRIPTION">>,
                 pattern |-> CoughPattern],
             quantity_rule |->
                [column |-> "ACTIVITY_QUANTITY_APPROVED", gt |-> 2]]) @@
    "crp_esr_pair_rule" :>
        Entry("CRP & ESR in Same claim / pre-auth", TRUE, "both",
              "account specific", "none",
            [pair_rule |->
                [code_column |-> "ACTIVITY_CODE",
                 pairs |-> <<Pair(<<"85651", "85652">>,
                                  <<"86140", "86141">>)>>]]) @@
    "biopsy_pa_available" :>
        Entry("Service not payable without Preauth", TRUE, "claim",
              "account specific", "none",
            [incl_codes |-> Bare(<<"11101", "11102">>),
             incl_col |-> "ACTIVITY_CODE",
             preauth_rule |->
                [preauth_columns |-> <<"PRE_AUTH_NUMBER", "PREAUTH_NUMBER">>,
                 complaint_column |-> "PRESENTING_COMPLAINTS",
                 regex |-> "PA:?\\s*\\d+"]]) @@
    "steam_inhaler_non_payable" :>
        Entry("Steam Inhaler - Not Payable", FALSE, "both", "generic", "none",
            [inclusion |->
                Dicts(<<Clause("ACTIVITY_CODE", <<"94644", "J3535">>),
                        Clause("ACTIVITY_INTERNAL_DESCRIPTION",
                               <<"Steam Inhaler">>),
                        Clause("ACTIVITY_DESCRIPTION",
                               <<"Steam Inhaler">>)>>)])

RuleKeys == DOMAIN DefaultCatalog

----------------------------------------------------------------------------
(* Rule methods (each reads its entry of RULES_CONFIG when it runs) *)

general_exclusion_hiv(st) ==
    LET config == catalog["general_exclusion_hiv"]
    IN  _compute_inclusion_exclusion(st, config.name,
            Args(config.incl_codes, config.incl_col,
                 config.excl_codes, config.excl_col, NoExtra), NoTmp)

general_exclusion_zirconium_crown(st) ==
    LET config == catalog["general_exclusion_zirconium_crown"]
        s1 == _compute_inclusion_exclusion(st, config.name,
                Args(config.incl_codes, config.incl_col,
                     config.excl_codes, config.excl_col, NoExtra), NoTmp)
    IN  apply_manual_trigger(s1, config.name)

more_than_one_quantity(st) ==
    LET config == catalog["more_than_one_quantity"]
    IN  _compute_inclusion_exclusion(st, config.name,
            Args(config.incl_codes, config.incl_col, NoneArg, NoCol,
                 config.extra_conditions), NoTmp)

cough_syrup_high_quantity(st) ==
    LET config == catalog["cough_syrup_high_quantity"]
        temp_col == "_tmp_cough_syrup"
        text_cols == Range(config.text_match.columns)
        \* df[temp_col] = False
        s1 == [st EXCEPT !.cols = st.cols \cup {temp_col}]
        flag == [r \in Rows |->
                    \E col \in text_cols :
                        Contains(Str(df[r][col]), config.text_match.pattern)]
        extra_conditions ==
            ExtraList(<<Extra(temp_col, <<Cond("eq", BoolV(TRUE))>>),
                        Extra(config.quantity_rule.column,
                              <<Cond("gt", Num(config.quantity_rule.gt))>>)>>)
        s2 == _compute_inclusion_exclusion(s1, config.name,
                Args(NoneArg, NoCol, NoneArg, NoCol, extra_conditions),
                temp_col :> flag)
        s3 == apply_manual_trigger(s2, config.name)
    IN  IF "columns" \notin DOMAIN config.text_match THEN Raise(s1)
        ELSE IF ~ (text_cols \subseteq s1.cols) THEN Raise(s1)
        ELSE IF s3.err THEN s3
        ELSE [s3 EXCEPT !.cols = s3.cols \ {temp_col}]

apply_crp_esr_rule(st) ==
    LET config == catalog["crp_esr_pair_rule"]
    IN  _apply_group_pair_rule(st, config.name, config.pair_rule.pairs,
                               config.pair_rule.code_column)

biopsy_pa_available(st) ==
    LET config == catalog["biopsy_pa_available"]
        temp_col == "_tmp_pre_auth_missing"
        present == SelectSeq(config.preauth_rule.preauth_columns,
                             LAMBDA c : c \in st.cols)
        complaint == config.preauth_rule.complaint_column
    IN  IF present = <<>> \/ complaint \notin st.cols THEN Raise(st)
        ELSE
        LET pre_auth_col == Head(present)
            flag == [r \in Rows |->
                        /\ df[r][pre_auth_col] \in {NA, ""}
                        /\ ~Contains(Str(df[r][complaint]),
                                     config.preauth_rule.regex)]
            s1 == [st EXCEPT !.cols = st.cols \cup {temp_col}]
            s2 == _compute_inclusion_exclusion(s1, config.name,
                    Args(config.incl_codes, config.incl_col, NoneArg, NoCol,
                         ExtraList(<<Extra(temp_col,
                                           <<Cond("eq", BoolV(TRUE))>>)>>)),
                    temp_col :> flag)
        IN  IF s2.err THEN s2
            ELSE [s2 EXCEPT !.cols = s2.cols \ {temp_col}]

steam_inhaler_non_payable(st) ==
    LET config == catalog["steam_inhaler_non_payable"]
    IN  _compute_inclusion_exclusion(st, config.name,
            Args(config.inclusion, NoCol, NoneArg, NoCol, NoExtra), NoTmp)

\* @rule_details(case_type, scope, review_req) @rule_method(active) on each
\* rule method, and the catalog key the method reads
Rule(key, active, case_type, review_req) ==
    [key |-> key, active |-> active, case_type |-> case_type,
     review_req |-> review_req]

RuleMethods ==
    "general_exclusion_hiv" :>
        Rule("general_exclusion_hiv", TRUE, "both", "none") @@
    "general_exclusion_zirconium_crown" :>
        Rule("general_exclusion_zirconium_crown", TRUE, "both", "manual") @@
    "more_than_one_quantity" :>
        Rule("more_than_one_quantity", TRUE, "both", "none") @@
    "cough_syrup_high_quantity" :>
        Rule("cough_syrup_high_quantity", TRUE, "both", "manual") @@
    "apply_crp_esr_rule" :>
        Rule("crp_esr_pair_rule", TRUE, "both", "none") @@
    "biopsy_pa_available" :>
        Rule("biopsy_pa_available", TRUE, "claim", "none") @@
    "steam_inhaler_non_payable" :>
        Rule("steam_inhaler_non_payable", FALSE, "both", "none")

\* the body of a rule method
RuleBody(method, st) ==
    CASE method = "general_exclusion_hiv" -> general_exclusion_hiv(st)
      [] method = "general_exclusion_zirconium_crown" ->
            general_exclusion_zirconium_crown(st)
      [] method = "more_than_one_quantity" -> more_than_one_quantity(st)
      [] method = "cough_syrup_high_quantity" ->
            cough_syrup_high_quantity(st)
      [] method = "apply_crp_esr_rule" -> apply_crp_esr_rule(st)
      [] method = "biopsy_pa_available" -> biopsy_pa_available(st)
      [] method = "steam_inhaler_non_payable" ->
            steam_inhaler_non_payable(st)

\* variant: on an exception the wrapper hands back a record set whose
\* trigger sets are reset
rule_method_reset(out) ==
    [df |-> [out EXCEPT !.err = FALSE,
                        !.raw = IF out.err THEN EmptySets ELSE out.raw],
     logged |-> out.err]

\* rule_method.wrapper: an exception of the body is logged and the record
\* set passed in (mutated in place as far as the body got) is returned
rule_method(out) == [df |-> [out EXCEPT !.err = FALSE], logged |-> out.err]

\* the order of the rule methods in the class body
DeclarationOrder ==
    <<"general_exclusion_hiv", "general_exclusion_zirconium_crown",
      "more_than_one_quantity", "cough_syrup_high_quantity",
      "apply_crp_esr_rule", "biopsy_pa_available",
      "steam_inhaler_non_payable">>

\* variant: the methods are visited in the order of the class body
DirOrder_Declared ==
    <<"general_exclusion_hiv", "general_exclusion_zirconium_crown",
      "more_than_one_quantity", "cough_syrup_high_quantity",
      "apply_crp_esr_rule", "biopsy_pa_available",
      "steam_inhaler_non_payable">>

\* for name in dir(self): attribute names in sorted order
DirOrder ==
    <<"apply_crp_esr_rule", "biopsy_pa_available",
      "cough_syrup_high_quantity", "general_exclusion_hiv",
      "general_exclusion_zirconium_crown", "more_than_one_quantity",
      "steam_inhaler_non_payable">>

\* variant: the pre-auth dispatcher lets claim-only methods through
CaseTypes_NoFilter(dt) ==
    IF dt = "PreAuth" THEN {"preauth", "both", "claim"}
    ELSE {"claim", "both"}

\* apply_all_rules_preauth / apply_all_rules_claim: the case types run
CaseTypes(dt) ==
    IF dt = "PreAuth" THEN {"preauth", "both"} ELSE {"claim", "both"}

\* the dispatcher invokes the method
Dispatched(method, dt) ==
    /\ RuleMethods[method].active
    /\ RuleMethods[method].case_type \in CaseTypes(dt)

----------------------------------------------------------------------------
(* Inputs *)

\* records of an uploaded file
SampleRows ==
    {MkRow("86689", "OUT-PATIENT", 1, "Approved", NA, "CL1", "Paracetamol"),
     MkRow("86689", "Out-Patient Maternity", 2, "Approved", NA, "CL1",
           "Paracetamol"),
     MkRow("d2720", "IN-PATIENT", 3, "APPROVED", NA, "CL2", "Koflet Syrup"),
     MkRow("D2720", "OUT-PATIENT", 3, "Approved", "PA1", "CL2",
           "Koflet Syrup"),
     MkRow("85651", "OUT-PATIENT", 1, "Approved", NA, "CL1", "Paracetamol"),
     MkRow("86140", "OUT-PATIENT", 2, "Approved", NA, "CL1", "Paracetamol"),
     MkRow("86140", "OUT-PATIENT", 2, "Rejected", NA, "CL1", "Paracetamol"),
     MkRow("99213", "OUT-PATIENT", 2, "Approved", NA, "CL2", "Paracetamol"),
     MkRow("11101", "OUT-PATIENT", NAQty, "Approved", NA, "CL2",
           "Paracetamol"),
     MkRow("94644", "OUT-PATIENT", 1, NA, NA, "CL2", "Koflet Syrup"),
     MkRow("86689", "OUT-PATIENT", 3, "Approved", NA, "CL1", "Koflet Syrup")}

\* the columns of an uploaded file: optional columns may be missing
ColumnSets ==
    {InputColumns,
     InputColumns \ {"ACTIVITY_QUANTITY_APPROVED"},
     InputColumns \ {"ACTIVITY_INTERNAL_DESCRIPTION"},
     InputColumns \ {"POLICY_NUMBER"},
     InputColumns \ {StatusCol}}

DataTypes == {"PreAuth", "Claim", "Other"}

NoCall == [kind |-> "none"]

----------------------------------------------------------------------------
(* A full run: AuditOrchestrator.execute *)

Init ==
    /\ data_type \in DataTypes
    /\ catalog = DefaultCatalog
    /\ df \in [1..NRows -> SampleRows]
    /\ columns \in ColumnSets
    /\ raw = [r \in 1..NRows |-> {}]
    /\ final = [r \in 1..NRows |-> {}]
    /\ manual = [r \in 1..NRows |-> {}]
    /\ pc = "idle"
    /\ idx = 1
    /\ errors = {}
    /\ evaluated = <<>>
    /\ masks = NoMasks
    /\ call = NoCall
    /\ edits = 0
    /\ input_data = [df |-> df, columns |-> columns]
    /\ history = <<>>

\* AuditOrchestrator.__init__ -> load_exclusions raises ValueError
InvalidType ==
    /\ pc = "idle"
    /\ data_type \notin ValidTypes
    /\ pc' = "fatal"
    /\ UNCHANGED <<data_type, catalog, df, columns, raw, final, manual, idx,
                   errors, evaluated, masks, call, edits, input_data,
                   history>>

\* run_preprocess raises KeyError on a column it needs
PreprocessError ==
    /\ pc = "idle"
    /\ data_type \in ValidTypes
    /\ PreprocessFails(columns, load_exclusions(data_type))
    /\ pc' = "fatal"
    /\ UNCHANGED <<data_type, catalog, df, columns, raw, final, manual, idx,
                   errors, evaluated, masks, call, edits, input_data,
                   history>>

\* run_preprocess
Preprocess ==
    /\ pc = "idle"
    /\ data_type \in ValidTypes
    /\ ~PreprocessFails(columns, load_exclusions(data_type))
    /\ df' = [r \in Rows |->
                PreprocessRow(df[r], load_exclusions(data_type))]
    /\ columns' = (columns \cup WorkingColumns) \cup TriggerColumns
    /\ raw' = EmptySets
    /\ final' = EmptySets
    /\ manual' = EmptySets
    /\ pc' = "rules"
    /\ idx' = 1
    /\ errors' = {}
    /\ evaluated' = <<>>
    /\ masks' = NoMasks
    /\ UNCHANGED <<data_type, catalog, call, edits, input_data,
                   history>>

\* one iteration of the loop of apply_all_rules_*: the method is skipped
SkipRule ==
    /\ pc = "rules"
    /\ idx <= Len(DirOrder)
    /\ ~Dispatched(DirOrder[idx], data_type)
    /\ idx' = idx + 1
    /\ UNCHANGED <<data_type, catalog, df, columns, raw, final, manual, pc,
                   errors, evaluated, masks, call, edits, input_data,
                   history>>

\* variant: the method writes its trigger mask over the approval flag
RunRule_reflag ==
    /\ pc = "rules"
    /\ idx <= Len(DirOrder)
    /\ Dispatched(DirOrder[idx], data_type)
    /\ LET method == DirOrder[idx]
           res == rule_method(RuleBody(method,
                                       DfState(raw, manual, columns)))
       IN  /\ raw' = res.df.raw
           /\ manual' = res.df.manual
           /\ columns' = res.df.cols
           /\ masks' = res.df.masks
           /\ errors' = IF res.logged THEN errors \cup {method} ELSE errors
           /\ evaluated' = Append(evaluated, method)
           /\ df' = [r \in Rows |->
                       [df[r] EXCEPT !["__approved"] =
                           IF res.df.masks.ran THEN r \in res.df.masks.trig
                           ELSE @]]
    /\ idx' = idx + 1
    /\ UNCHANGED <<data_type, catalog, final, pc, call, edits, input_data,
                   history>>

\* one iteration of the loop of apply_all_rules_*: df = method(df)
RunRule ==
    /\ pc = "rules"
    /\ idx <= Len(DirOrder)
    /\ Dispatched(DirOrder[idx], data_type)
    /\ LET method == DirOrder[idx]
           res == rule_method(RuleBody(method,
                                       DfState(raw, manual, columns)))
       IN  /\ raw' = res.df.raw
           /\ manual' = res.df.manual
           /\ columns' = res.df.cols
           /\ masks' = res.df.masks
           /\ errors' = IF res.logged THEN errors \cup {method} ELSE errors
           /\ evaluated' = Append(evaluated, method)
    /\ idx' = idx + 1
    /\ UNCHANGED <<data_type, catalog, df, final, pc, call, edits, input_data,
                   history>>

\* variant: the raw triggers of every row are carried over
add_exclusions_unfiltered ==
    /\ pc = "rules"
    /\ idx > Len(DirOrder)
    /\ final' = [r \in Rows |-> IF raw[r] # {} THEN raw[r] ELSE final[r]]
    /\ pc' = "remove_manual"
    /\ UNCHANGED <<data_type, catalog, df, columns, raw, manual, idx, errors,
                   evaluated, masks, call, edits, input_data,
                   history>>

\* PostProcessClass.add_exclusions
add_exclusions ==
    /\ pc = "rules"
    /\ idx > Len(DirOrder)
    /\ final' = [r \in Rows |->
                    IF raw[r] # {} /\ ~IsExclusionEligible(r)
                    THEN raw[r] ELSE final[r]]
    /\ pc' = "remove_manual"
    /\ UNCHANGED <<data_type, catalog, df, columns, raw, manual, idx, errors,
                   evaluated, masks, call, edits, input_data,
                   history>>

\* variant: the manual triggers are not subtracted
remove_manual_rules_filter_applied_kept ==
    /\ pc = "remove_manual"
    /\ final' = final
    /\ pc' = "convert_list"
    /\ UNCHANGED <<data_type, catalog, df, columns, raw, manual, idx, errors,
                   evaluated, masks, call, edits, input_data,
                   history>>

\* PostProcessClass.remove_manual_rules_filter_applied
remove_manual_rules_filter_applied ==
    /\ pc = "remove_manual"
    /\ final' = [r \in Rows |->
                    IF manual[r] # {} THEN final[r] \ manual[r]
                    ELSE final[r]]
    /\ pc' = "convert_list"
    /\ UNCHANGED <<data_type, catalog, df, columns, raw, manual, idx, errors,
                   evaluated, masks, call, edits, input_data,
                   history>>

\* PostProcessClass.convert_list: each set becomes a list of its elements
convert_list ==
    /\ pc = "convert_list"
    /\ pc' = "drop_extra"
    /\ UNCHANGED <<data_type, catalog, df, columns, raw, final, manual, idx,
                   errors, evaluated, masks, call, edits, input_data,
                   history>>

\* PostProcessClass.__drop_extra_columns
drop_extra_columns ==
    /\ pc = "drop_extra"
    /\ columns' = columns \ {"exclusion_mask", "__approved"}
    /\ pc' = "done"
    /\ UNCHANGED <<data_type, catalog, df, raw, final, manual, idx, errors,
                   evaluated, masks, call, edits, input_data,
                   history>>

Next ==
    \/ InvalidType
    \/ PreprocessError
    \/ Preprocess
    \/ SkipRule
    \/ RunRule
    \/ add_exclusions
    \/ remove_manual_rules_filter_applied
    \/ convert_list
    \/ drop_extra_columns

Spec == Init /\ [][Next]_vars

----------------------------------------------------------------------------
(* Repeated runs: main(df, data_type, insurer) is called again in the same *)
(* process, on the uploaded record set or on the record set it returned.   *)

\* the three trigger columns of the returned record set
Result == [raw |-> raw, final |-> final, manual |-> manual]

\* AuditOrchestrator.execute called again: fetch_data copies its input;
\* run_preprocess then sets the three trigger columns to empty sets
Rerun ==
    /\ pc = "done"
    /\ Len(history) + 1 < MaxRuns
    /\ history' = Append(history, Result)
    /\ \E again \in {"uploaded", "returned"} :
        IF again = "uploaded"
        THEN /\ df' = input_data.df
             /\ columns' = input_data.columns
        ELSE UNCHANGED <<df, columns>>
    /\ pc' = "idle"
    /\ UNCHANGED <<data_type, catalog, raw, final, manual, idx, errors,
                   evaluated, masks, call, edits, input_data>>

NextRerun ==
    \/ Next
    \/ Rerun

SpecRerun == Init /\ [][NextRerun]_vars

----------------------------------------------------------------------------
(* A direct call of the Mask Evaluator, from a rule method whose body is  *)
(* that call, on a preprocessed record set that an earlier rule tagged.   *)

MaskSampleRows ==
    {MkRow("86689", "OUT-PATIENT", 2, "Approved", NA, "CL1", "Paracetamol"),
     MkRow("86689", "Out-Patient Maternity", 2, "Approved", NA, "CL1",
           "Paracetamol"),
     MkRow("d2720", "OUT-PATIENT", 1, "Approved", NA, "CL1", "Paracetamol"),
     MkRow(NA, "OUT-PATIENT MATERNITY", NAQty, "APPROVED", NA, "CL1",
           "Paracetamol"),
     MkRow("86689", "OUT-PATIENT", 2, "Rejected", NA, "CL1", "Paracetamol")}

PreprocessedColumns == (InputColumns \cup WorkingColumns) \cup TriggerColumns

MaskColumnSets ==
    {PreprocessedColumns,
     PreprocessedColumns \ {"BENEFIT_TYPE"},
     PreprocessedColumns \ {"ACTIVITY_CODE"},
     PreprocessedColumns \ {"ACTIVITY_QUANTITY_APPROVED"}}

MaskInclusions ==
    {NoneArg,
     Bare(<<>>),
     Bare(<<"86689", "D2720">>),
     Bare(<<"NAN">>),
     Dicts(<<Clause("ACTIVITY_CODE", <<"d2720">>),
             Clause("BENEFIT_TYPE", <<"out-patient maternity">>)>>),
     Dicts(<<Clause("ACTIVITY_CODE", <<>>)>>)}

MaskExclusions ==
    {NoneArg,
     Bare(<<"OUT-PATIENT MATERNITY">>),
     Dicts(<<Clause("BENEFIT_TYPE", <<"OUT-PATIENT MATERNITY">>),
             Clause("ACTIVITY_CODE", <<"D2720">>)>>)}

MaskExtras ==
    {NoExtra,
     ExtraList(<<>>),
     ExtraList(<<Extra("ACTIVITY_QUANTITY_APPROVED",
                       <<Cond("gt", Num(1))>>)>>),
     ExtraList(<<Extra("ACTIVITY_QUANTITY_APPROVED",
                       <<Cond("gt", StrV("1"))>>)>>),
     ExtraList(<<Extra("ACTIVITY_QUANTITY_APPROVED",
                       <<Cond("bogus", Num(1))>>)>>),
     ExtraList(<<Extra("BENEFIT_TYPE", <<Cond("eq", StrV("Out-Patient"))>>),
                 Extra("ACTIVITY_QUANTITY_APPROVED",
                       <<Cond("gte", Num(2))>>)>>),
     ExtraList(<<Extra("ACTIVITY_CODE", <<Cond("notna", BoolV(TRUE))>>)>>),
     ExtraList(<<Extra("BENEFIT_TYPE", <<Cond("eq", StrV("Out-Patient"))>>),
                 Extra("ACTIVITY_QUANTITY_APPROVED",
                       <<Cond("bogus", Num(1))>>)>>)}

MaskCalls ==
    {[kind |-> "mask", trigger_name |-> "General exclusion - HIV",
      args |-> Args(i, ic, e, ec, x)] :
        i \in MaskInclusions, ic \in {NoCol, "ACTIVITY_CODE"},
        e \in MaskExclusions, ec \in {NoCol, "BENEFIT_TYPE"},
        x \in MaskExtras}

\* triggers an earlier rule left on the record set
PriorRaw(rows) ==
    [r \in rows |-> IF r = 1 THEN {"Quantity More Than 1"} ELSE {}]

InitMask ==
    /\ data_type = "PreAuth"
    /\ catalog = DefaultCatalog
    /\ df \in [1..NRows ->
                {PreprocessRow(s, excluded_conditions_preauth) :
                    s \in MaskSampleRows}]
    /\ columns \in MaskColumnSets
    /\ raw = PriorRaw(1..NRows)
    /\ final = [r \in 1..NRows |-> {}]
    /\ manual = [r \in 1..NRows |-> {}]
    /\ pc = "call"
    /\ idx = 1
    /\ errors = {}
    /\ evaluated = <<>>
    /\ masks = NoMasks
    /\ call \in MaskCalls
    /\ edits = 0
    /\ input_data = [df |-> df, columns |-> columns]
    /\ history = <<>>

\* the rule method runs under rule_method.wrapper
MaskEvaluatorCall ==
    /\ pc = "call"
    /\ call.kind = "mask"
    /\ LET res == rule_method(
                    _compute_inclusion_exclusion(
                        DfState(raw, manual, columns), call.trigger_name,
                        call.args, NoTmp))
       IN  /\ raw' = res.df.raw
           /\ manual' = res.df.manual
           /\ columns' = res.df.cols
           /\ masks' = res.df.masks
           /\ errors' = IF res.logged THEN {"rule"} ELSE {}
    /\ pc' = "returned"
    /\ UNCHANGED <<data_type, catalog, df, final, idx, evaluated, call, edits, input_data,
                   history>>

NextMask == MaskEvaluatorCall

SpecMask == InitMask /\ [][NextMask]_vars

----------------------------------------------------------------------------
(* A direct call of the Group-Pair Evaluator *)

PairSampleRows ==
    {MkRow("85651", "OUT-PATIENT", 1, "Approved", NA, "CL1", "Paracetamol"),
     MkRow("86140", "OUT-PATIENT", 1, "Approved", NA, "CL1", "Paracetamol"),
     MkRow("86140", "OUT-PATIENT", 1, "Rejected", NA, "CL1", "Paracetamol"),
     MkRow("84702", "OUT-PATIENT", 1, "Approved", NA, "CL1", "Paracetamol"),
     MkRow("85651", "OUT-PATIENT", 1, "Approved", NA, NA, "Paracetamol"),
     MkRow("86140", "OUT-PATIENT", 1, "Approved", NA, NA, "Paracetamol"),
     MkRow("86140", "OUT-PATIENT", 1, "Approved", "PA1", "CL2",
           "Paracetamol"),
     MkRow("85651", "OUT-PATIENT", 1, "Approved", "PA1", "CL1",
           "Paracetamol"),
     MkRow("0000", "OUT-PATIENT", 1, "Approved", NA, "CL1", "Paracetamol")}

PairLists ==
    {<<Pair(<<"85651", "85652">>, <<"86140", "86141">>)>>,
     <<Pair(<<"85651">>, <<"86140">>), Pair(<<"85651">>, <<"84702">>)>>,
     <<Pair(<<"84702">>, <<"81025">>), Pair(<<"86140">>, <<"85651">>)>>,
     <<Pair(<<"85651", "84702">>, <<"85651">>)>>}

PairCalls ==
    {[kind |-> "pair",
      trigger_name |-> "CRP & ESR in Same claim / pre-auth",
      pair_list |-> pl, code_column |-> "ACTIVITY_CODE"] : pl \in PairLists}

InitPair ==
    /\ data_type = "PreAuth"
    /\ catalog = DefaultCatalog
    /\ df \in [1..NPairRows ->
                {PreprocessRow(s, excluded_conditions_preauth) :
                    s \in PairSampleRows}]
    /\ columns \in {PreprocessedColumns,
                    PreprocessedColumns \ {"ACTIVITY_CODE"}}
    /\ raw = PriorRaw(1..NPairRows)
    /\ final = [r \in 1..NPairRows |-> {}]
    /\ manual = [r \in 1..NPairRows |-> {}]
    /\ pc = "call"
    /\ idx = 1
    /\ errors = {}
    /\ evaluated = <<>>
    /\ masks = NoMasks
    /\ call \in PairCalls
    /\ edits = 0
    /\ input_data = [df |-> df, columns |-> columns]
    /\ history = <<>>

GroupPairCall ==
    /\ pc = "call"
    /\ call.kind = "pair"
    /\ LET res == rule_method(
                    _apply_group_pair_rule(
                        DfState(raw, manual, columns), call.trigger_name,
                        call.pair_list, call.code_column))
       IN  /\ raw' = res.df.raw
           /\ manual' = res.df.manual
           /\ columns' = res.df.cols
           /\ errors' = IF res.logged THEN {"rule"} ELSE {}
    /\ pc' = "returned"
    /\ UNCHANGED <<data_type, catalog, df, final, idx, evaluated, masks, call,
                   edits, input_data,
                   history>>

NextPair == GroupPairCall

SpecPair == InitPair /\ [][NextPair]_vars

----------------------------------------------------------------------------
(* Runs after the catalog editor has saved a rule                         *)
(* (frontend-streamlit/rules_config_editor.py)                            *)

CatalogRecordSets ==
    {<<MkRow("86689", "OUT-PATIENT", 1, "Approved", NA, "CL1", "Paracetamol"),
       MkRow("d2720", "IN-PATIENT", 3, "APPROVED", NA, "CL2",
             "Koflet Syrup")>>,
     <<MkRow("D2720", "OUT-PATIENT", 3, "Approved", NA, "CL2",
             "Koflet Syrup"),
       MkRow("11101", "OUT-PATIENT", 1, "Approved", NA, "CL2",
             "Paracetamol")>>,
     <<MkRow("94644", "OUT-PATIENT", 1, "Approved", NA, "CL1",
             "Paracetamol"),
       MkRow("86689", "OUT-PATIENT", 1, "Rejected", NA, "CL1",
             "Paracetamol")>>}

InitCatalog ==
    /\ data_type \in ValidTypes
    /\ catalog = DefaultCatalog
    /\ df \in CatalogRecordSets
    /\ columns = InputColumns
    /\ raw = [r \in DOMAIN df |-> {}]
    /\ final = [r \in DOMAIN df |-> {}]
    /\ manual = [r \in DOMAIN df |-> {}]
    /\ pc = "idle"
    /\ idx = 1
    /\ errors = {}
    /\ evaluated = <<>>
    /\ masks = NoMasks
    /\ call = NoCall
    /\ edits = 0
    /\ input_data = [df |-> df, columns |-> columns]
    /\ history = <<>>

\* RULE_UI_SCHEMA: the type of the widget of each configuration field
RULE_UI_SCHEMA ==
    "incl_codes" :> "list" @@
    "excl_codes" :> "list" @@
    "incl_col" :> "text" @@
    "excl_col" :> "text" @@
    "inclusion" :> "multi_column_list" @@
    "extra_conditions" :> "conditions" @@
    "quantity_rule" :> "quantity_rule" @@
    "pair_rule" :> "pair_rule" @@
    "text_match" :> "text_match" @@
    "preauth_rule" :> "preauth_rule"

\* v.strip() on the strings of the model
StripMap == " " :> "" @@ "" :> ""

Strip(v) == IF v \in DOMAIN StripMap THEN StripMap[v] ELSE v

\* [v.strip() for v in updated.splitlines() if v.strip()]
StripLines(lines) ==
    SelectSeq([i \in DOMAIN lines |-> Strip(lines[i])], LAMBDA v : v # "")

\* render_field: what the widget of a field returns when the user leaves
\* it as it was drawn
render_field(field_key, value) ==
    LET ftype == RULE_UI_SCHEMA[field_key]
    IN  CASE ftype = "list" -> Bare(StripLines(value.codes))
          [] ftype = "text" -> value
          [] ftype = "multi_column_list" ->
                Dicts([i \in DOMAIN value.clauses |->
                        Clause(value.clauses[i].column,
                               StripLines(value.clauses[i].codes))])
          [] ftype = "conditions" ->
                ExtraList([i \in DOMAIN value.clauses |->
                            ExtraText(value.clauses[i].column,
                                      value.clauses[i].condition)])
          [] ftype = "quantity_rule" ->
                [column |-> value.column, gt |-> value.gt]
          [] ftype = "pair_rule" ->
                [code_column |-> value.code_column,
                 pairs |-> [i \in DOMAIN value.pairs |->
                             Pair(value.pairs[i].A, value.pairs[i].B)]]
          [] ftype = "text_match" ->
                [column |-> IF "column" \in DOMAIN value
                            THEN value.column ELSE "",
                 pattern |-> IF "pattern" \in DOMAIN value
                             THEN value.pattern ELSE ""]
          [] ftype = "preauth_rule" ->
                [preauth_columns |-> StripLines(value.preauth_columns),
                 complaint_column |-> value.complaint_column,
                 regex |-> value.regex]

\* for key in rule: rule[key] = render_field(rule_key, key, rule.get(key))
RenderFields(rule) ==
    [key \in DOMAIN rule |->
        IF key \in DOMAIN RULE_UI_SCHEMA THEN render_field(key, rule[key])
        ELSE rule[key]]

\* a name typed into the "Rule Name" text input
EditorNames == {"General exclusion-Zirconium Crown"}

\* the metadata widgets on Save: as drawn from the entry, or with one of
\* them changed
MetadataForms(rule) ==
    (({rule} \cup {[rule EXCEPT !.name = n] : n \in EditorNames})
      \cup {[rule EXCEPT !.active = a] : a \in BOOLEAN})
      \cup ({[rule EXCEPT !.case_type = c] :
                c \in {"both", "claim", "preauth"}}
            \cup {[rule EXCEPT !.review_req = q] : q \in {"none", "manual"}})

\* the Save button: rule = deepcopy(RULES_CONFIG[rule_key]), the widgets,
\* RULES_CONFIG[rule_key] = rule; save_rules(RULES_CONFIG)
EditorSave ==
    /\ pc = "idle"
    /\ edits < MaxEdits
    /\ \E rule_key \in RuleKeys :
        \E form \in MetadataForms(catalog[rule_key]) :
            catalog' = [catalog EXCEPT ![rule_key] = RenderFields(form)]
    /\ edits' = edits + 1
    /\ UNCHANGED <<data_type, df, columns, raw, final, manual, pc, idx,
                   errors, evaluated, masks, call, input_data,
                   history>>

NextCatalog ==
    \/ EditorSave
    \/ Preprocess
    \/ SkipRule
    \/ RunRule
    \/ add_exclusions
    \/ remove_manual_rules_filter_applied
    \/ convert_list
    \/ drop_extra_columns

SpecCatalog == InitCatalog /\ [][NextCatalog]_vars

\* one process of frontend-streamlit/main.py: runs and editor saves follow
\* each other in any order
NextSession ==
    \/ NextCatalog
    \/ Rerun

SpecSession == InitCatalog /\ [][NextSession]_vars

----------------------------------------------------------------------------
(* The other entry points of the engine: ComputeRule.apply_all_rules      *)
(* called on its own, and preprocess_and_run_rules of src/app.py.         *)

\* ComputeRule.apply_all_rules, else branch: logger.error(...); return df
apply_all_rules_invalid ==
    /\ pc = "idle"
    /\ data_type \notin ValidTypes
    /\ errors' = {"apply_all_rules"}
    /\ pc' = "done"
    /\ UNCHANGED <<data_type, catalog, df, columns, raw, final, manual, idx,
                   evaluated, masks, call, edits, input_data, history>>

\* preprocess_and_run_rules, else branch: logger.info(...); return df
preprocess_and_run_rules_invalid ==
    /\ pc = "idle"
    /\ data_type \notin ValidTypes
    /\ pc' = "done"
    /\ UNCHANGED <<data_type, catalog, df, columns, raw, final, manual, idx,
                   errors, evaluated, masks, call, edits, input_data,
                   history>>

NextEntry ==
    \/ Next
    \/ apply_all_rules_invalid
    \/ preprocess_and_run_rules_invalid

SpecEntry == Init /\ [][NextEntry]_vars

----------------------------------------------------------------------------
(* Runs whose dispatcher visits the rule methods in another order: the    *)
(* loop of apply_all_rules_* over a class whose methods are listed in any *)
(* order, each method (with its own apply_manual_trigger call) run once.  *)

OrderRecordSets ==
    {<<MkRow("D2720", "OUT-PATIENT", 3, "Approved", "PA1", "CL2",
             "Koflet Syrup"),
       MkRow("86689", "OUT-PATIENT", 3, "Approved", NA, "CL1",
             "Koflet Syrup")>>,
     <<MkRow("85651", "OUT-PATIENT", 1, "Approved", NA, "CL1", "Paracetamol"),
       MkRow("86140", "OUT-PATIENT", 2, "Approved", NA, "CL1",
             "Paracetamol")>>,
     <<MkRow("99213", "OUT-PATIENT", 2, "Approved", NA, "CL2", "Paracetamol"),
       MkRow("11101", "OUT-PATIENT", NAQty, "Approved", NA, "CL2",
             "Paracetamol")>>,
     <<MkRow("d2720", "IN-PATIENT", 3, "APPROVED", NA, "CL2", "Koflet Syrup"),
       MkRow("86689", "Out-Patient Maternity", 2, "Rejected", NA, "CL1",
             "Paracetamol")>>}

InitOrder ==
    /\ data_type \in ValidTypes
    /\ catalog = DefaultCatalog
    /\ df \in OrderRecordSets
    /\ columns \in ColumnSets
    /\ raw = [r \in DOMAIN df |-> {}]
    /\ final = [r \in DOMAIN df |-> {}]
    /\ manual = [r \in DOMAIN df |-> {}]
    /\ pc = "idle"
    /\ idx = 1
    /\ errors = {}
    /\ evaluated = <<>>
    /\ masks = NoMasks
    /\ call = NoCall
    /\ edits = 0
    /\ input_data = [df |-> df, columns |-> columns]
    /\ history = <<>>

\* the methods the dispatcher invokes in a run
DispatchedMethods(dt) == {m \in DOMAIN RuleMethods : Dispatched(m, dt)}

\* one iteration of the loop of apply_all_rules_*, df = method(df), the
\* method being any dispatched method not yet visited; the loop ends after
\* the last one
RunRuleAnyOrder ==
    /\ pc = "rules"
    /\ idx <= Len(DirOrder)
    /\ \E method \in DispatchedMethods(data_type) \ Range(evaluated) :
        LET res == rule_method(RuleBody(method,
                                        DfState(raw, manual, columns)))
        IN  /\ raw' = res.df.raw
            /\ manual' = res.df.manual
            /\ columns' = res.df.cols
            /\ masks' = res.df.masks
            /\ errors' = IF res.logged THEN errors \cup {method} ELSE errors
            /\ evaluated' = Append(evaluated, method)
            /\ idx' = IF DispatchedMethods(data_type)
                            \subseteq Range(evaluated) \cup {method}
                      THEN Len(DirOrder) + 1 ELSE idx
    /\ UNCHANGED <<data_type, catalog, df, final, pc, call, edits,
                   input_data, history>>

NextOrder ==
    \/ PreprocessError
    \/ Preprocess
    \/ RunRuleAnyOrder
    \/ add_exclusions
    \/ remove_manual_rules_filter_applied
    \/ convert_list
    \/ drop_extra_columns
    \/ Rerun

SpecOrder == InitOrder /\ [][NextOrder]_vars

----------------------------------------------------------------------------
(* Properties of the Mask Evaluator (SpecMask) *)

C2_ExclusionAnd ==
    (pc = "returned" /\ call.kind = "mask") =>
        LET a == call.args
            clauses ==
                IF a.exclusion.kind = "dict" THEN Range(a.exclusion.clauses)
                ELSE IF a.exclusion.kind = "bare" /\ a.exclusion_column # NoCol
                THEN {Clause(a.exclusion_column, a.exclusion.codes)}
                ELSE {}
            excluded(r, c) ==
                /\ c.column \in columns
                /\ \E i \in DOMAIN c.codes :
                      Lower(Str(df[r][c.column])) = Lower(c.codes[i])
        IN  \A r \in Rows :
                /\ (masks.ran /\ r \in masks.excl) =>
                        \A c \in clauses : ~excluded(r, c)
                /\ (\E c \in clauses : excluded(r, c)) =>
                        call.trigger_name \notin raw[r]

\* inclusion on ACTIVITY_CODE, exclusion on BENEFIT_TYPE: of two approved
\* rows with an included code, the one with the excluded benefit type is
\* not tagged and the other is
C2_Witness ==
    /\ pc = "returned"
    /\ call.kind = "mask"
    /\ masks.ran
    /\ call.args.inclusion = Bare(<<"86689", "D2720">>)
    /\ call.args.inclusion_column = "ACTIVITY_CODE"
    /\ call.args.exclusion = Bare(<<"OUT-PATIENT MATERNITY">>)
    /\ call.args.exclusion_column = "BENEFIT_TYPE"
    /\ \E r1, r2 \in Rows :
          /\ df[r1]["ACTIVITY_CODE"] = "86689"
          /\ df[r1]["__approved"]
          /\ df[r1]["BENEFIT_TYPE"] = "Out-Patient Maternity"
          /\ call.trigger_name \notin raw[r1]
          /\ df[r2]["ACTIVITY_CODE"] = "86689"
          /\ df[r2]["BENEFIT_TYPE"] = "OUT-PATIENT"
          /\ call.trigger_name \in raw[r2]

----------------------------------------------------------------------------
(* Properties of a full run (Spec) *)

\* C3: an exception raised inside one rule's evaluation is caught at the
\* dispatch boundary: the failing rule leaves every row's RawTriggers and
\* ManualTriggers as they were before it started, the dispatcher moves on
\* to the next rule, and when dispatch ends every active, applicable rule
\* has been evaluated; the run is not aborted.
C3_FailureIsolation ==
    [][/\ (errors' # errors) =>
            /\ raw' = raw
            /\ manual' = manual
            /\ pc' = "rules"
            /\ idx' = idx + 1
       /\ (pc = "rules" /\ pc' # "rules") =>
            /\ pc' = "remove_manual"
            /\ evaluated = SelectSeq(DirOrder,
                                     LAMBDA m : Dispatched(m, data_type))
      ]_vars

\* a run in which a rule failed after an earlier rule had tagged a row,
\* and which went on to the end
C3_Witness ==
    /\ pc = "done"
    /\ "cough_syrup_high_quantity" \in errors
    /\ "more_than_one_quantity" \in errors
    /\ \E r \in Rows :
          "CRP & ESR in Same claim / pre-auth" \in raw[r]

\* C5: after postprocessing an exclusion-eligible row has an empty
\* FinalTriggers whatever matched it, while its RawTriggers is what rule
\* evaluation left; a row that is not exclusion-eligible has every raw
\* trigger carried into FinalTriggers by add_exclusions, before the manual
\* subtraction.
C5_ExclusionEligibleSuppression ==
    /\ [][/\ (pc = "rules" /\ pc' = "remove_manual") =>
                \A r \in Rows :
                    final'[r] = IF df[r]["exclusion_mask"] THEN {} ELSE raw[r]
          /\ (pc \in {"rules", "remove_manual", "convert_list", "drop_extra"}
              /\ pc' # "rules") => raw' = raw
         ]_vars
    /\ [](pc \in {"remove_manual", "convert_list", "drop_extra", "done"} =>
            \A r \in Rows : df[r]["exclusion_mask"] => final[r] = {})

\* a finished run with an exclusion-eligible row that a rule matched and a
\* row that is not eligible whose raw trigger reached FinalTriggers
C5_Witness ==
    /\ pc = "done"
    /\ \E r \in Rows : /\ df[r]["exclusion_mask"]
                       /\ raw[r] # {}
                       /\ final[r] = {}
    /\ \E r \in Rows : /\ ~df[r]["exclusion_mask"]
                       /\ final[r] # {}

\* C6: after postprocessing, FinalTriggers and ManualTriggers of every row
\* are disjoint, and for a row that is not exclusion-eligible FinalTriggers
\* is RawTriggers minus ManualTriggers.
C6_FinalManualDisjoint ==
    pc \in {"convert_list", "drop_extra", "done"} =>
        \A r \in Rows :
            /\ final[r] \cap manual[r] = {}
            /\ ~df[r]["exclusion_mask"] => final[r] = raw[r] \ manual[r]

\* a row tagged by a manual-review rule and by another rule: the first
\* name is only in ManualTriggers, the second only in FinalTriggers
C6_Witness ==
    /\ pc = "done"
    /\ \E r \in Rows :
          /\ manual[r] = {"Cough Syrup-Quantity 2"}
          /\ final[r] = {"General exclusion - HIV"}
          /\ raw[r] = {"Cough Syrup-Quantity 2", "General exclusion - HIV"}

----------------------------------------------------------------------------
(* Properties of the Group-Pair Evaluator (SpecPair) *)

\* C7: a correlation group (rows sharing the pre-auth number, or the claim
\* number when there is no pre-auth number) is tagged iff the codes of its
\* approved rows intersect both A and B of some declared pair; an
\* unapproved row's code does not count, and the rows tagged are the
\* approved rows of the group whose own code is in A or B of a matching
\* pair.
C7_GroupPair ==
    (pc = "returned" /\ call.kind = "pair" /\ errors = {}) =>
        LET key(r) == IF df[r]["PRE_AUTH_NUMBER"] # NA
                      THEN df[r]["PRE_AUTH_NUMBER"]
                      ELSE df[r]["CLAIM_NUMBER"]
            code(r) == Str(df[r][call.code_column])
            group(g) == {r \in Rows : key(r) = g}
            codes(g) == {code(r) : r \in {x \in group(g) :
                                             df[x]["__approved"]}}
            AB(i) == Range(call.pair_list[i].A)
                        \cup Range(call.pair_list[i].B)
            matching(g) ==
                {i \in DOMAIN call.pair_list :
                    /\ codes(g) \cap Range(call.pair_list[i].A) # {}
                    /\ codes(g) \cap Range(call.pair_list[i].B) # {}}
            tagged(g) == {r \in group(g) : call.trigger_name \in raw[r]}
        IN  \A g \in {key(r) : r \in Rows} \ {NA} :
                /\ tagged(g) # {} <=> matching(g) # {}
                /\ matching(g) # {} =>
                      \E i \in matching(g) :
                          tagged(g) = {r \in group(g) :
                                          /\ df[r]["__approved"]
                                          /\ code(r) \in AB(i)}

\* a group with an approved A row, an approved B row and an unapproved B
\* row: the two approved rows are tagged, the unapproved one is not
C7_Witness ==
    /\ pc = "returned"
    /\ call.kind = "pair"
    /\ errors = {}
    /\ call.pair_list = <<Pair(<<"85651", "85652">>, <<"86140", "86141">>)>>
    /\ \E r1, r2, r3 \in Rows :
          /\ df[r1]["CLAIM_NUMBER"] = "CL1" /\ df[r1]["PRE_AUTH_NUMBER"] = NA
          /\ df[r2]["CLAIM_NUMBER"] = "CL1" /\ df[r2]["PRE_AUTH_NUMBER"] = NA
          /\ df[r3]["CLAIM_NUMBER"] = "CL1" /\ df[r3]["PRE_AUTH_NUMBER"] = NA
          /\ df[r1]["ACTIVITY_CODE"] = "85651" /\ df[r1]["__approved"]
          /\ df[r2]["ACTIVITY_CODE"] = "86140" /\ df[r2]["__approved"]
          /\ df[r3]["ACTIVITY_CODE"] = "86140" /\ ~df[r3]["__approved"]
          /\ call.trigger_name \in raw[r1]
          /\ call.trigger_name \in raw[r2]
          /\ call.trigger_name \notin raw[r3]

\* C8: pairs are checked per group in declaration order and the first
\* matching pair wins: in a group that matches several pairs only the
\* approved rows whose code is in A or B of the first matching pair are
\* tagged.
C8_FirstPairWins ==
    (pc = "returned" /\ call.kind = "pair" /\ errors = {}) =>
        LET key(r) == IF df[r]["PRE_AUTH_NUMBER"] # NA
                      THEN df[r]["PRE_AUTH_NUMBER"]
                      ELSE df[r]["CLAIM_NUMBER"]
            code(r) == Str(df[r][call.code_column])
            group(g) == {r \in Rows : key(r) = g}
            codes(g) == {code(r) : r \in {x \in group(g) :
                                             df[x]["__approved"]}}
            AB(i) == Range(call.pair_list[i].A)
                        \cup Range(call.pair_list[i].B)
            matching(g) ==
                {i \in DOMAIN call.pair_list :
                    /\ codes(g) \cap Range(call.pair_list[i].A) # {}
                    /\ codes(g) \cap Range(call.pair_list[i].B) # {}}
        IN  \A g \in {key(r) : r \in Rows} \ {NA} :
                \A i, j \in matching(g) :
                    (i < j /\ \A k \in matching(g) : i <= k) =>
                        \A r \in group(g) :
                            /\ (df[r]["__approved"] /\ code(r) \in AB(i))
                                    => call.trigger_name \in raw[r]
                            /\ (code(r) \in AB(j) /\ code(r) \notin AB(i))
                                    => call.trigger_name \notin raw[r]

\* a group matching the first and the second pair: the row whose code is
\* only in the second pair is not tagged
C8_Witness ==
    /\ pc = "returned"
    /\ call.kind = "pair"
    /\ errors = {}
    /\ call.pair_list = <<Pair(<<"85651">>, <<"86140">>),
                          Pair(<<"85651">>, <<"84702">>)>>
    /\ \E r1, r2, r3 \in Rows :
          /\ \A r \in {r1, r2, r3} :
                /\ df[r]["CLAIM_NUMBER"] = "CL1"
                /\ df[r]["PRE_AUTH_NUMBER"] = NA
                /\ df[r]["__approved"]
          /\ df[r1]["ACTIVITY_CODE"] = "85651"
          /\ df[r2]["ACTIVITY_CODE"] = "86140"
          /\ df[r3]["ACTIVITY_CODE"] = "84702"
          /\ call.trigger_name \in raw[r1]
          /\ call.trigger_name \in raw[r2]
          /\ call.trigger_name \notin raw[r3]

\* C9 (as amended): rows lacking both a pre-auth number and a claim number
\* belong to no correlation group: the Group-Pair Evaluator never tags
\* them, even when two such approved rows hold a code in A and a code in B
\* of a declared pair.
C9_NullKeyUngrouped ==
    (pc = "returned" /\ call.kind = "pair") =>
        \A r \in Rows :
            (df[r]["PRE_AUTH_NUMBER"] = NA /\ df[r]["CLAIM_NUMBER"] = NA)
                => call.trigger_name \notin raw[r]

\* C9 (as stated): two approved rows lacking both identifiers, one with a
\* code in A and the other with a code in B of a declared pair, are both
\* tagged.
C9_AsStated ==
    (pc = "returned" /\ call.kind = "pair" /\ errors = {}) =>
        \A r1, r2 \in Rows :
            (/\ df[r1]["PRE_AUTH_NUMBER"] = NA /\ df[r1]["CLAIM_NUMBER"] = NA
             /\ df[r2]["PRE_AUTH_NUMBER"] = NA /\ df[r2]["CLAIM_NUMBER"] = NA
             /\ df[r1]["__approved"] /\ df[r2]["__approved"]
             /\ \E i \in DOMAIN call.pair_list :
                   /\ Str(df[r1][call.code_column])
                        \in Range(call.pair_list[i].A)
                   /\ Str(df[r2][call.code_column])
                        \in Range(call.pair_list[i].B))
                => /\ call.trigger_name \in raw[r1]
                   /\ call.trigger_name \in raw[r2]

\* two approved rows without identifiers, with a code in A and a code in B
\* of the declared pair, after the evaluator returned without an exception
C9_Witness ==
    /\ pc = "returned"
    /\ call.kind = "pair"
    /\ errors = {}
    /\ call.pair_list = <<Pair(<<"85651", "85652">>, <<"86140", "86141">>)>>
    /\ \E r1, r2 \in Rows :
          /\ df[r1]["PRE_AUTH_NUMBER"] = NA /\ df[r1]["CLAIM_NUMBER"] = NA
          /\ df[r2]["PRE_AUTH_NUMBER"] = NA /\ df[r2]["CLAIM_NUMBER"] = NA
          /\ df[r1]["__approved"] /\ df[r2]["__approved"]
          /\ df[r1]["ACTIVITY_CODE"] = "85651"
          /\ df[r2]["ACTIVITY_CODE"] = "86140"
          /\ call.trigger_name \notin raw[r1]
          /\ call.trigger_name \notin raw[r2]

----------------------------------------------------------------------------
(* Properties of runs on an edited catalog (SpecCatalog) *)

\* C4: for a rule whose catalog entry has review_req = manual, once the
\* rule has run its name is in ManualTriggers of exactly the rows whose
\* RawTriggers holds the name and which are not exclusion-eligible.
C4_ManualPromotion ==
    \A m \in Range(evaluated) :
        LET config == catalog[RuleMethods[m].key]
        IN  (config.review_req = "manual" /\ m \notin errors) =>
                \A r \in Rows :
                    config.name \in manual[r] <=>
                        /\ config.name \in raw[r]
                        /\ ~df[r]["exclusion_mask"]

\* C10: a rule whose catalog entry is inactive is skipped by the
\* dispatcher: after a run its trigger name is in no row's RawTriggers,
\* FinalTriggers or ManualTriggers.
C10_InactiveSkipped ==
    pc \in {"remove_manual", "convert_list", "drop_extra", "done"} =>
        \A rule_key \in RuleKeys :
            ~catalog[rule_key].active =>
                \A r \in Rows :
                    catalog[rule_key].name
                        \notin (raw[r] \cup final[r]) \cup manual[r]

----------------------------------------------------------------------------
(* Properties of the dispatcher (Spec) *)

C12_AlphabeticalOrder ==
    LET sorted == "apply_crp_esr_rule" :> 1 @@
                  "biopsy_pa_available" :> 2 @@
                  "cough_syrup_high_quantity" :> 3 @@
                  "general_exclusion_hiv" :> 4 @@
                  "general_exclusion_zirconium_crown" :> 5 @@
                  "more_than_one_quantity" :> 6 @@
                  "steam_inhaler_non_payable" :> 7
    IN  \A i, j \in DOMAIN evaluated :
            i < j => sorted[evaluated[i]] < sorted[evaluated[j]]

\* C12 (as stated): the order of evaluation is the rules' declaration
\* order: R1 declared before R2 is evaluated before R2.
C12_AsStated ==
    LET declared == "general_exclusion_hiv" :> 1 @@
                    "general_exclusion_zirconium_crown" :> 2 @@
                    "more_than_one_quantity" :> 3 @@
                    "cough_syrup_high_quantity" :> 4 @@
                    "apply_crp_esr_rule" :> 5 @@
                    "biopsy_pa_available" :> 6 @@
                    "steam_inhaler_non_payable" :> 7
    IN  \A i, j \in DOMAIN evaluated :
            i < j => declared[evaluated[i]] < declared[evaluated[j]]

\* a finished claim batch: the six active rules were evaluated, the
\* group-pair rule (declared fifth) first and the HIV rule (declared first)
\* fourth
C12_Witness ==
    /\ pc = "done"
    /\ data_type = "Claim"
    /\ Len(evaluated) = 6
    /\ evaluated[1] = "apply_crp_esr_rule"
    /\ evaluated[4] = "general_exclusion_hiv"

----------------------------------------------------------------------------
(* Properties of the extra conditions (SpecMask) *)

\* C13: a rule with the single extra condition "quantity gt 1" and no
\* inclusion or exclusion tags exactly the approved rows whose quantity is
\* not null and greater than 1: a row with quantity 1 or a null quantity
\* and an unapproved row are not tagged.
C13_QuantityGreaterThanOne ==
    (/\ pc = "returned"
     /\ call.kind = "mask"
     /\ call.args.inclusion = NoneArg
     /\ call.args.exclusion = NoneArg
     /\ call.args.extra_condition =
            ExtraList(<<Extra("ACTIVITY_QUANTITY_APPROVED",
                              <<Cond("gt", Num(1))>>)>>)
     /\ "ACTIVITY_QUANTITY_APPROVED" \in columns) =>
        /\ errors = {}
        /\ \A r \in Rows :
              call.trigger_name \in raw[r] <=>
                  /\ df[r]["__approved"]
                  /\ df[r]["ACTIVITY_QUANTITY_APPROVED"] # NAQty
                  /\ df[r]["ACTIVITY_QUANTITY_APPROVED"] > 1

\* the rule ran on an approved row with quantity 2, which is tagged, and on
\* an approved row with a null quantity, which is not
C13_Witness ==
    /\ pc = "returned"
    /\ call.kind = "mask"
    /\ call.args.inclusion = NoneArg
    /\ call.args.exclusion = NoneArg
    /\ call.args.extra_condition =
            ExtraList(<<Extra("ACTIVITY_QUANTITY_APPROVED",
                              <<Cond("gt", Num(1))>>)>>)
    /\ "ACTIVITY_QUANTITY_APPROVED" \in columns
    /\ \E r1, r2 \in Rows :
          /\ df[r1]["__approved"]
          /\ df[r1]["ACTIVITY_QUANTITY_APPROVED"] = 2
          /\ call.trigger_name \in raw[r1]
          /\ df[r2]["__approved"]
          /\ df[r2]["ACTIVITY_QUANTITY_APPROVED"] = NAQty
          /\ call.trigger_name \notin raw[r2]

\* C14 (as amended): a gt/gte/lt/lte operator given a non-numeric operand
\* is handled as an invalid operation: the rule completes (the clause's
\* column is not read) and the extra-condition mask is false for every row,
\* so the rule adds its trigger to no row.
C14_NonNumericOperandFailsClosed ==
    (/\ pc = "returned"
     /\ call.kind = "mask"
     /\ call.args.extra_condition.kind = "list"
     /\ \E i \in DOMAIN call.args.extra_condition.clauses :
           \E k \in DOMAIN call.args.extra_condition.clauses[i].condition :
              LET item == call.args.extra_condition.clauses[i].condition[k]
              IN  /\ item.op \in {"gt", "gte", "lt", "lte"}
                  /\ item.val.t \notin {"num", "bool"}) =>
        /\ \A r \in Rows : call.trigger_name \notin raw[r]
        /\ Len(call.args.extra_condition.clauses) = 1 => errors = {}

\* C14 (as stated): the clause is dropped, the rule's trigger set is the
\* one the same rule gives with that clause omitted.
C14_AsStated ==
    (/\ pc = "returned"
     /\ call.kind = "mask"
     /\ call.args.extra_condition =
            ExtraList(<<Extra("ACTIVITY_QUANTITY_APPROVED",
                              <<Cond("gt", StrV("1"))>>)>>)) =>
        raw = _compute_inclusion_exclusion(
                  DfState(PriorRaw(Rows), manual, columns),
                  call.trigger_name,
                  [call.args EXCEPT !.extra_condition = ExtraList(<<>>)],
                  NoTmp).raw

\* the rule with "quantity gt '1'" returned without an exception on an
\* approved row with quantity 2 that passes inclusion and exclusion, and
\* did not tag it
C14_Witness ==
    /\ pc = "returned"
    /\ call.kind = "mask"
    /\ call.args.extra_condition =
            ExtraList(<<Extra("ACTIVITY_QUANTITY_APPROVED",
                              <<Cond("gt", StrV("1"))>>)>>)
    /\ errors = {}
    /\ masks.ran
    /\ masks.extra = {}
    /\ \E r \in Rows :
          /\ df[r]["__approved"]
          /\ df[r]["ACTIVITY_QUANTITY_APPROVED"] = 2
          /\ r \in masks.incl \cap masks.excl
          /\ call.trigger_name \notin raw[r]

----------------------------------------------------------------------------
(* Error handling of the Mask Evaluator (SpecMask) *)

\* C16: a rule that calls the Mask Evaluator with no inclusion, no
\* exclusion and no extra condition fails and adds its trigger to no row;
\* a rule that supplies at least one of the three (an empty list included)
\* never fails with that error: if it fails, an extra-condition item read
\* a column that is missing or not comparable.
C16_ConfigurationError ==
    (pc = "returned" /\ call.kind = "mask") =>
        LET a == call.args
            none_supplied == /\ a.inclusion.kind = "none"
                             /\ a.exclusion.kind = "none"
                             /\ a.extra_condition.kind = "none"
            clauses == a.extra_condition.clauses
            raises(col, item) ==
                \/ /\ item.op \in {"gt", "gte", "lt", "lte"}
                   /\ item.val.t \in {"num", "bool"}
                   /\ col \notin columns \cap NumericColumns
                \/ /\ item.op \in {"eq", "neq", "notna"}
                   /\ col \notin columns
                \/ /\ item.op \in {"isin", "notin"}
                   /\ item.val.t = "list"
                   /\ col \notin columns
        IN  /\ none_supplied =>
                /\ errors # {}
                /\ ~masks.ran
                /\ \A r \in Rows : call.trigger_name \notin raw[r]
            /\ (~none_supplied /\ errors # {}) =>
                \E i \in DOMAIN clauses :
                    \E k \in DOMAIN clauses[i].condition :
                        raises(clauses[i].column, clauses[i].condition[k])

\* the call with nothing supplied failed on a record set with an approved
\* row, and left the triggers of the earlier rule in place
C16_Witness ==
    /\ pc = "returned"
    /\ call.kind = "mask"
    /\ call.args.inclusion = NoneArg
    /\ call.args.exclusion = NoneArg
    /\ call.args.extra_condition = NoExtra
    /\ errors # {}
    /\ raw = PriorRaw(Rows)
    /\ \E r \in Rows : df[r]["__approved"]

\* C17: when the column of an inclusion or exclusion clause is absent from
\* the record set the rule is not aborted: the clause is ignored, the
\* inclusion mask is the OR and the exclusion mask the AND of the clauses
\* whose column is present, and a mask with no clause left is all-true.
C17_MissingClauseColumn ==
    (pc = "returned" /\ call.kind = "mask") =>
        LET a == call.args
            list(l, column) ==
                IF l.kind = "dict" THEN Range(l.clauses)
                ELSE IF l.kind = "bare" /\ l.codes # <<>> /\ column # NoCol
                THEN {Clause(column, l.codes)}
                ELSE {}
            inclusion == list(a.inclusion, a.inclusion_column)
            exclusion == list(a.exclusion, a.exclusion_column)
            present(clauses) == {c \in clauses : c.column \in columns}
            matches(r, c) ==
                \E i \in DOMAIN c.codes :
                    Lower(Str(df[r][c.column])) = Lower(c.codes[i])
            absent == \E c \in inclusion \cup exclusion :
                         c.column \notin columns
        IN  absent =>
              /\ (a.extra_condition.kind = "none"
                  \/ a.extra_condition.clauses = <<>>) => errors = {}
              /\ masks.ran =>
                  /\ masks.incl =
                        IF present(inclusion) = {} THEN Rows
                        ELSE {r \in Rows :
                                \E c \in present(inclusion) : matches(r, c)}
                  /\ masks.excl =
                        IF present(exclusion) = {} THEN Rows
                        ELSE {r \in Rows :
                                \A c \in present(exclusion) : ~matches(r, c)}

\* a two-clause inclusion whose second column is missing: the rule ran and
\* tagged the row matching the first clause, not the other approved row
C17_Witness ==
    /\ pc = "returned"
    /\ call.kind = "mask"
    /\ call.args.inclusion.kind = "dict"
    /\ Len(call.args.inclusion.clauses) = 2
    /\ "BENEFIT_TYPE" \notin columns
    /\ errors = {}
    /\ masks.ran
    /\ \E r1, r2 \in Rows :
          /\ df[r1]["ACTIVITY_CODE"] = "d2720"
          /\ call.trigger_name \in raw[r1]
          /\ df[r2]["ACTIVITY_CODE"] = "86689"
          /\ df[r2]["__approved"]
          /\ call.trigger_name \notin raw[r2]

\* C18: when the column of an extra-condition clause is absent from the
\* record set the absence is recovered locally: the rule does not fail as
\* a whole, it completes and evaluates its other clauses.
C18_MissingExtraColumn ==
    (/\ pc = "returned"
     /\ call.kind = "mask"
     /\ call.args.extra_condition.kind = "list"
     /\ \E i \in DOMAIN call.args.extra_condition.clauses :
           call.args.extra_condition.clauses[i].column \notin columns) =>
        /\ errors = {}
        /\ masks.ran

----------------------------------------------------------------------------
(* Properties of the output of a full run (Spec) *)

\* C19: after a full run the output record set holds the input columns and
\* the three trigger columns and no internal working column: neither
\* exclusion_mask, nor the approval flag, nor the group key column, nor a
\* rule-private temporary column, also when a rule failed after creating
\* its temporary column.
C19_NoWorkingColumnInOutput ==
    pc = "done" =>
        /\ TriggerColumns \subseteq columns
        /\ columns \ TriggerColumns \in ColumnSets
        /\ columns \cap {"exclusion_mask", "__approved", "_GROUP_KEY",
                         "_tmp_cough_syrup", "_tmp_pre_auth_missing"} = {}

----------------------------------------------------------------------------
(* Properties of repeated evaluation (SpecRerun) *)

\* C20: idempotence. A run of the full catalog that follows an earlier run
\* in the same process, after the three trigger sets were reset to empty,
\* returns for every row the same RawTriggers, FinalTriggers and
\* ManualTriggers as the earlier run; and evaluating the rule method that
\* was just evaluated once more leaves RawTriggers and ManualTriggers as
\* they are.
C20_Idempotence ==
    /\ pc = "done" => \A i \in DOMAIN history : history[i] = Result
    /\ pc = "rules" /\ evaluated # <<>> =>
        LET method == evaluated[Len(evaluated)]
            again == rule_method(
                        RuleBody(method, DfState(raw, manual, columns))).df
        IN  /\ again.raw = raw
            /\ again.manual = manual

\* a second run has finished and has tagged rows, one of them for manual
\* verification, after a rule failed
C20_Witness ==
    /\ pc = "done"
    /\ history # <<>>
    /\ \E r \in Rows : final[r] # {}
    /\ \E r \in Rows : manual[r] # {}
    /\ errors # {}

----------------------------------------------------------------------------
(* Properties of the order of evaluation (SpecOrder) *)

----------------------------------------------------------------------------
(* Properties of the entry points (SpecEntry) *)

\* C22: with a record-type discriminator other than "PreAuth" and "Claim"
\* the invocation is fatal: no rule method is evaluated and no record set
\* is returned to the caller.
C22_InvalidTypeFatal ==
    data_type \notin ValidTypes =>
        /\ pc \in {"idle", "fatal"}
        /\ evaluated = <<>>

----------------------------------------------------------------------------
(* Properties of one process with runs and editor saves (SpecSession) *)

\* C23: the catalog the rule methods read is the one loaded at process
\* start, whatever the editor has saved since, so every run of the process
\* on the same input returns the same three trigger columns as the runs
\* before it, also with editor saves between them.
C23_CatalogFixedUntilRestart ==
    pc = "done" =>
        \A i \in DOMAIN history :
            /\ history[i].raw = raw
            /\ history[i].final = final
            /\ history[i].manual = manual

----------------------------------------------------------------------------
(* Properties of the trigger columns during dispatch (Spec) *)

\* C24: preprocessing creates the three trigger sets of every row empty;
\* a step of the dispatcher, whether the rule method succeeds or fails,
\* removes no element from a row's RawTriggers or ManualTriggers and leaves
\* FinalTriggers empty.
C24_TriggerSetsOnlyGrow ==
    [][/\ (pc = "idle" /\ pc' = "rules") =>
            \A r \in Rows : raw'[r] = {} /\ final'[r] = {} /\ manual'[r] = {}
       /\ (pc = "rules" /\ pc' = "rules") =>
            \A r \in Rows : /\ raw[r] \subseteq raw'[r]
                            /\ manual[r] \subseteq manual'[r]
                            /\ final'[r] = {}]_vars

\* during dispatch a row holds a raw and a manual trigger, added before a
\* later rule method failed
C24_Witness ==
    /\ pc = "rules"
    /\ errors # {}
    /\ \E r \in Rows : raw[r] # {} /\ manual[r] # {}
    /\ Len(evaluated) > 2
    /\ evaluated[Len(evaluated)] \in errors
    /\ \A r \in Rows : final[r] = {}

----------------------------------------------------------------------------
(* Frame of the rule methods (Spec) *)

\* C25: preprocessing computes the approval flag of a row from its status
\* text and the exclusion-eligibility mask from the exclusion specification
\* of the record type, before any rule method runs; no step of the
\* dispatcher (mask rule, group-pair rule, manual promotion, failing rule)
\* changes either value of any row.
C25_FlagsNeverChanged ==
    [][/\ (pc = "idle" /\ pc' = "rules") =>
            /\ evaluated' = <<>>
            /\ \A r \in Rows :
                /\ df'[r]["__approved"] = Approved(FillNa(df[r]))
                /\ df'[r]["exclusion_mask"] =
                     ExclusionMask(FillNa(df[r]), load_exclusions(data_type))
       /\ pc = "rules" =>
            \A r \in Rows :
                /\ df'[r]["__approved"] = df[r]["__approved"]
                /\ df'[r]["exclusion_mask"] = df[r]["exclusion_mask"]]_vars

\* the dispatcher has run the group-pair rule, mask rules and a manual
\* promotion on a record set with an approved, tagged row and a row that is
\* unapproved or exclusion-eligible
C25_Witness ==
    /\ pc = "rules"
    /\ idx > Len(DirOrder)
    /\ "apply_crp_esr_rule" \in Range(evaluated)
    /\ \E r \in Rows : df[r]["__approved"] /\ manual[r] # {}
    /\ \E r \in Rows : df[r]["exclusion_mask"] /\ raw[r] # {}
    /\ \E r \in Rows : ~df[r]["__approved"] \/ df[r]["exclusion_mask"]

----------------------------------------------------------------------------
(* Unapproved rows (SpecCatalog) *)

\* C26: in every state of a run after preprocessing, a row whose approval
\* flag is false has empty RawTriggers, ManualTriggers and FinalTriggers.
C26_UnapprovedNeverTagged ==
    pc # "idle" =>
        \A r \in Rows :
            ~df[r]["__approved"] =>
                raw[r] = {} /\ manual[r] = {} /\ final[r] = {}

\* a run has ended in which the HIV rule was evaluated without failing on
\* an unapproved row that holds one of its codes and none of its exclusions
C26_Witness ==
    /\ pc = "done"
    /\ "general_exclusion_hiv" \in Range(evaluated) \ errors
    /\ \E r \in Rows :
        /\ ~df[r]["__approved"]
        /\ df[r]["ACTIVITY_CODE"] = "86689"
        /\ df[r]["BENEFIT_TYPE"] = "OUT-PATIENT"

----------------------------------------------------------------------------
(* Manual promotion on an edited catalog (SpecCatalog) *)

\* C27: for every row ManualTriggers is a subset of RawTriggers, and every
\* name in ManualTriggers is the name of a rule whose review requirement is
\* manual (in its catalog entry or on its method) and whose own mask
\* matched that row: evaluated alone on the record set, that rule tags the
\* row.
C27_ManualFromOwnRule ==
    \A r \in Rows :
        /\ manual[r] \subseteq raw[r]
        /\ \A n \in manual[r] :
            \E m \in DOMAIN RuleMethods :
                LET config == catalog[RuleMethods[m].key]
                    own == RuleBody(m, DfState(EmptySets, EmptySets,
                                               columns)).raw
                IN  /\ config.name = n
                    /\ \/ config.review_req = "manual"
                       \/ RuleMethods[m].review_req = "manual"
                    /\ n \in own[r]

----------------------------------------------------------------------------
(* Safety of the inclusion (SpecMask) *)

\* C28: when the call supplies an inclusion list (bare codes, or entries
\* with a column and codes) and the record set has every column the
\* inclusion references, every row that receives the trigger holds, in the
\* string form of its value compared without case, one of the supplied
\* codes in the corresponding column; an inclusion without codes and bare
\* codes without an inclusion column tag no row.
C28_InclusionSafety ==
    (pc = "returned" /\ call.kind = "mask" /\ masks.ran) =>
        LET a == call.args
            referenced ==
                IF a.inclusion.kind = "dict"
                THEN {c.column : c \in Range(a.inclusion.clauses)}
                ELSE {a.inclusion_column} \ {NoCol}
            holds_code(r) ==
                IF a.inclusion.kind = "dict"
                THEN \E c \in Range(a.inclusion.clauses) :
                        CodeMatch(r, c.column, c.codes, NoTmp)
                ELSE /\ a.inclusion_column # NoCol
                     /\ CodeMatch(r, a.inclusion_column, a.inclusion.codes,
                                  NoTmp)
        IN  (a.inclusion.kind # "none" /\ referenced \subseteq columns) =>
                \A r \in Rows :
                    call.trigger_name \in raw[r] => holds_code(r)

----------------------------------------------------------------------------
(* Safety of the group-pair evaluator (SpecPair) *)

\* C29: the group-pair evaluator tags rows of a correlation group only when
\* the group holds two distinct approved rows, one with a code in A and the
\* other with a code in B of one declared pair; a group with a single
\* approved row is never tagged, also when A and B of a pair share a code.
C29_TwoDistinctRows ==
    (pc = "returned" /\ call.kind = "pair" /\ errors = {}) =>
        LET code(r) == Str(df[r][call.code_column])
            approved(g) == {r \in Rows : /\ GroupKey(r, columns) = g
                                         /\ df[r]["__approved"]}
        IN  \A r \in Rows :
                call.trigger_name \in raw[r] =>
                    \E r1, r2 \in approved(GroupKey(r, columns)) :
                        /\ r1 # r2
                        /\ \E i \in DOMAIN call.pair_list :
                              /\ code(r1) \in Range(call.pair_list[i].A)
                              /\ code(r2) \in Range(call.pair_list[i].B)

----------------------------------------------------------------------------
(* The editor's round trip (SpecCatalog) *)

\* C30: a Save in the catalog editor with no widget changed (the metadata
\* of every entry is what it was) leaves the catalog equal to what it was:
\* every parameter of the saved entry, the condition of each extra condition
\* included, is unchanged.
C30_EditorRoundTrip ==
    [][(/\ edits' = edits + 1
        /\ \A k \in RuleKeys :
              \A m \in {"name", "active", "case_type", "scope", "review_req"} :
                  catalog'[k][m] = catalog[k][m])
       => catalog' = catalog]_vars

====
